---- MODULE Spec2Model ----
(***************************************************************************)
(* BuringChess: the rule engine and turn controller of the page component  *)
(* (src/unnamed/part_001, the variant with mage cooldown decay) and the     *)
(* socket.io relay of src/server.js.                                        *)
(*                                                                          *)
(* A board is board[r][c], r, c \in 0..7, as in the source; row 0 is        *)
(* black's home edge.  A piece is a record {type, color, state}; the        *)
(* optional field `state` is NoState when absent.  The move and attack      *)
(* lists of the source are consulted by membership only (Array.some), so    *)
(* they are sets of <<row, col>> here.                                      *)
(***************************************************************************)
EXTENDS Integers, Sequences, FiniteSets, TLC

\* ------------------------------------------------------------------ bounds

\* Completed actions (moves or captures) in a behaviour from initialBoard.
MaxActions == 2
\* Completed actions in a behaviour that starts from a drawn board.
MaxDrawnActions == 1
\* Completed actions in a behaviour that starts from a duel board.
MaxDuelActions == 3
\* Completed actions, by either client, in a behaviour with a session.
MaxNetActions == 3
\* Presses of the reset button in a behaviour.
MaxResets == 1
MaxLobby == 2
MaxSends == 3
MaxInputs == 4
\* Completed actions in a local game played on the mage files.
MaxGameActions == 6
\* Clicks that complete an action on either page in a behaviour of the two variants.
MaxVariantActions == 2

\* ------------------------------------------------------------- data model

Rows == 0..7
Cols == 0..7
Squares == Rows \X Cols

PieceTypes ==
    {"king", "warrior", "defender", "paladin", "mage", "spearman", "archer",
     "bard", "assassin"}
PieceColors == {"white", "black"}

\* `state?: number` absent
NoState == -1

\* a square holding no piece (null in the source)
null == [type |-> "none", color |-> "none", state |-> NoState]

P(t, c) == [type |-> t, color |-> c, state |-> NoState]
PS(t, c, s) == [type |-> t, color |-> c, state |-> s]

EmptyRow == [c \in Cols |-> null]

Row8(a, b, c, d, e, f, g, h) ==
    [x \in Cols |->
        CASE x = 0 -> a [] x = 1 -> b [] x = 2 -> c [] x = 3 -> d
          [] x = 4 -> e [] x = 5 -> f [] x = 6 -> g [] x = 7 -> h]

initialBoard ==
    [r \in Rows |->
        CASE r = 0 -> Row8(P("assassin", "black"), P("archer", "black"),
                           P("king", "black"), PS("mage", "black", 2),
                           P("spearman", "black"), P("paladin", "black"),
                           P("bard", "black"), PS("warrior", "black", 0))
          [] r = 1 -> Row8(P("defender", "black"), P("defender", "black"),
                           null, null, null, null,
                           P("defender", "black"), P("defender", "black"))
          [] r = 6 -> Row8(P("defender", "white"), P("defender", "white"),
                           null, null, null, null,
                           P("defender", "white"), P("defender", "white"))
          [] r = 7 -> Row8(PS("warrior", "white", 0), P("bard", "white"),
                           P("paladin", "white"), P("spearman", "white"),
                           PS("mage", "white", 2), P("king", "white"),
                           P("archer", "white"), P("assassin", "white"))
          [] OTHER -> EmptyRow]

\* --------------------------------------------------------- board helpers

isValidPosition(row, col) == row >= 0 /\ row < 8 /\ col >= 0 /\ col < 8

Max(a, b) == IF a >= b THEN a ELSE b
Min(a, b) == IF a <= b THEN a ELSE b
Abs(a) == IF a < 0 THEN -a ELSE a

\* newBoard[row][col] = piece on a copy of b
SetSquare(b, row, col, piece) == [b EXCEPT ![row][col] = piece]

\* ---------------------------------------------------------- aura evaluator

\* an aura that a bard of either colour grants
getBardBonusAnyColour(b, row, col, color) ==
    IF \E r \in Max(0, row - 1)..Min(7, row + 1) :
          \E c \in Max(0, col - 1)..Min(7, col + 1) :
             b[r][c].type = "bard"
    THEN 1
    ELSE 0

getBardBonus(b, row, col, color) ==
    IF \E r \in Max(0, row - 1)..Min(7, row + 1) :
          \E c \in Max(0, col - 1)..Min(7, col + 1) :
             /\ b[r][c] # null
             /\ b[r][c].type = "bard"
             /\ b[r][c].color = color
    THEN 1
    ELSE 0

\* ------------------------------------------------------- assassin quadrants

getQuadrant(row, col) ==
    IF row < 4 /\ col >= 4 THEN 1
    ELSE IF row < 4 /\ col < 4 THEN 2
    ELSE IF row >= 4 /\ col < 4 THEN 3
    ELSE IF row >= 4 /\ col >= 4 THEN 4
    ELSE 0

\* the rotation taken the other way round
previousQuad(fromQuad) == ((fromQuad + 2) % 4) + 1

nextQuad(fromQuad) == (fromQuad % 4) + 1

canAssassinMove(fromRow, fromCol, toRow, toCol) ==
    getQuadrant(toRow, toCol) = nextQuad(getQuadrant(fromRow, fromCol))

\* ------------------------------------------------------ reachability: moves

\* the offsets r, c \in -range..range, (0, 0) skipped, kept when on the board
AreaSquares(row, col, range) ==
    {sq \in {<<row + r, col + c>> : r \in (-range)..range, c \in (-range)..range} :
        /\ sq # <<row, col>>
        /\ isValidPosition(sq[1], sq[2])}

\* the area loop of warrior, paladin, mage and bard: empty targets only
AreaMoves(b, row, col, range) ==
    {sq \in AreaSquares(row, col, range) : b[sq[1]][sq[2]] = null}

forwardDir(color) == IF color = "white" THEN -1 ELSE 1

\* a king loop without the colour test: friendly squares pass
kingMovesAnyTarget(b, row, col) == AreaSquares(row, col, 1)

kingMoves(b, row, col) ==
    {sq \in AreaSquares(row, col, 1) :
        \/ b[sq[1]][sq[2]] = null
        \/ b[sq[1]][sq[2]].color # b[row][col].color}

defenderSquares(b, row, col) ==
    {sq \in {<<row + forwardDir(b[row][col].color), col + c>> : c \in -1..1} :
        isValidPosition(sq[1], sq[2])}

defenderMoves(b, row, col) ==
    {sq \in defenderSquares(b, row, col) : b[sq[1]][sq[2]] = null}

warriorMoves(b, row, col, bardBonus) ==
    IF b[row][col].state = 0
    THEN AreaMoves(b, row, col, 1 + bardBonus)
    ELSE {}

paladinMoves(b, row, col, bardBonus) == AreaMoves(b, row, col, 2 + bardBonus)

mageMoves(b, row, col, bardBonus) ==
    IF b[row][col].state # NoState /\ b[row][col].state > 0
    THEN AreaMoves(b, row, col, 1 + bardBonus)
    ELSE {}

\* a spearman loop one step short
spearmanMovesShort(b, row, col, bardBonus) ==
    {sq \in Squares :
        /\ sq[2] = col
        /\ \E i \in 1..(2 + bardBonus) :
              /\ sq[1] = row + (forwardDir(b[row][col].color) * i)
              /\ \A j \in 1..i :
                    /\ isValidPosition(row + (forwardDir(b[row][col].color) * j), col)
                    /\ b[row + (forwardDir(b[row][col].color) * j)][col] = null}

\* for (i = 1; i <= spearRange; i++): push while empty, break at a piece,
\* skip an off-board row
RECURSIVE spearLoop(_, _, _, _, _, _)
spearLoop(b, row, col, spearDir, i, spearRange) ==
    IF i > spearRange THEN {}
    ELSE LET newRow == row + (spearDir * i) IN
         IF isValidPosition(newRow, col)
         THEN IF b[newRow][col] = null
              THEN {<<newRow, col>>}
                     \cup spearLoop(b, row, col, spearDir, i + 1, spearRange)
              ELSE {}
         ELSE spearLoop(b, row, col, spearDir, i + 1, spearRange)

spearmanMoves(b, row, col, bardBonus) ==
    spearLoop(b, row, col, forwardDir(b[row][col].color), 1, 3 + bardBonus)

\* a bard that moves within distance 1 whatever the bonus
bardMovesNoAura(b, row, col, bardBonus) == AreaMoves(b, row, col, 1)

bardMoves(b, row, col, bardBonus) == AreaMoves(b, row, col, 1 + bardBonus)

assassinSquares(row, col) ==
    {sq \in Squares :
        /\ sq # <<row, col>>
        /\ canAssassinMove(row, col, sq[1], sq[2])}

assassinMoves(b, row, col) ==
    {sq \in assassinSquares(row, col) : b[sq[1]][sq[2]] = null}

getValidMoves(b, row, col) ==
    LET piece == b[row][col]
        bardBonus == getBardBonus(b, row, col, piece.color)
    IN  IF piece = null THEN {}
        ELSE CASE piece.type = "king" -> kingMoves(b, row, col)
               [] piece.type = "defender" -> defenderMoves(b, row, col)
               [] piece.type = "warrior" -> warriorMoves(b, row, col, bardBonus)
               [] piece.type = "paladin" -> paladinMoves(b, row, col, bardBonus)
               [] piece.type = "mage" -> mageMoves(b, row, col, bardBonus)
               [] piece.type = "spearman" -> spearmanMoves(b, row, col, bardBonus)
               [] piece.type = "archer" -> {}
               [] piece.type = "bard" -> bardMoves(b, row, col, bardBonus)
               [] piece.type = "assassin" -> assassinMoves(b, row, col)
               [] OTHER -> {}

\* ---------------------------------------------------- reachability: attacks

\* a target test without the colour comparison
isOccupied(b, row, col, sq) == b[sq[1]][sq[2]] # null

\* target && target.color !== piece.color
isEnemy(b, row, col, sq) ==
    /\ b[sq[1]][sq[2]] # null
    /\ b[sq[1]][sq[2]].color # b[row][col].color

AreaAttacks(b, row, col, range) ==
    {sq \in AreaSquares(row, col, range) : isEnemy(b, row, col, sq)}

kingAttacks(b, row, col) == AreaAttacks(b, row, col, 1)

defenderAttacks(b, row, col) ==
    {sq \in defenderSquares(b, row, col) : isEnemy(b, row, col, sq)}

\* a warrior whose attack radius takes the aura
warriorAttacksWithAura(b, row, col) ==
    LET bonus == getBardBonus(b, row, col, b[row][col].color) IN
    IF b[row][col].state = 1 THEN AreaAttacks(b, row, col, 1 + bonus)
    ELSE IF b[row][col].state = 2 THEN AreaAttacks(b, row, col, 2 + bonus)
    ELSE {}

warriorAttacks(b, row, col) ==
    IF b[row][col].state = 1 THEN AreaAttacks(b, row, col, 1)
    ELSE IF b[row][col].state = 2 THEN AreaAttacks(b, row, col, 2)
    ELSE {}

paladinAttacks(b, row, col) == AreaAttacks(b, row, col, 2)

\* a line attack that the first piece on the line stops
mageAttacksBlocked(b, row, col) ==
    IF b[row][col].state = NoState \/ b[row][col].state = 0
    THEN {sq \in Squares :
            /\ sq # <<row, col>>
            /\ sq[1] = row \/ sq[2] = col
            /\ isEnemy(b, row, col, sq)
            /\ \A t \in Squares :
                  (/\ t[1] \in Min(row, sq[1])..Max(row, sq[1])
                   /\ t[2] \in Min(col, sq[2])..Max(col, sq[2])
                   /\ t # sq /\ t # <<row, col>>) => b[t[1]][t[2]] = null}
    ELSE {}

mageAttacks(b, row, col) ==
    IF b[row][col].state = NoState \/ b[row][col].state = 0
    THEN {sq \in {<<row, c>> : c \in Cols \ {col}} : isEnemy(b, row, col, sq)}
           \cup
         {sq \in {<<r, col>> : r \in Rows \ {row}} : isEnemy(b, row, col, sq)}
    ELSE {}

\* a thrust that needs the two squares in between empty
spearmanAttacksClearPath(b, row, col) ==
    LET dir == forwardDir(b[row][col].color)
        targetRow == row + (dir * 3)
    IN  IF /\ isValidPosition(targetRow, col)
           /\ isEnemy(b, row, col, <<targetRow, col>>)
           /\ b[row + dir][col] = null
           /\ b[row + (dir * 2)][col] = null
        THEN {<<targetRow, col>>}
        ELSE {}

spearmanAttacks(b, row, col) ==
    LET targetRow == row + (forwardDir(b[row][col].color) * 3) IN
    IF isValidPosition(targetRow, col) /\ isEnemy(b, row, col, <<targetRow, col>>)
    THEN {<<targetRow, col>>}
    ELSE {}

\* a range test that leaves out distance 4 itself
archerInRangeBelowFour(row, col, archerDir, r, c) ==
    LET rowDiff == (r - row) * archerDir
        colDiff == Abs(c - col)
    IN  rowDiff > 0 /\ (rowDiff * rowDiff) + (colDiff * colDiff) < 16

\* Math.sqrt(rowDiff^2 + colDiff^2) <= 4 is rowDiff^2 + colDiff^2 <= 16 on
\* the integers the loop ranges over
archerInRange(row, col, archerDir, r, c) ==
    LET rowDiff == (r - row) * archerDir
        colDiff == Abs(c - col)
    IN  rowDiff > 0 /\ (rowDiff * rowDiff) + (colDiff * colDiff) <= 16

archerAttacks(b, row, col) ==
    {sq \in Squares :
        /\ archerInRange(row, col, forwardDir(b[row][col].color), sq[1], sq[2])
        /\ isEnemy(b, row, col, sq)}

assassinAttacks(b, row, col) ==
    {sq \in assassinSquares(row, col) : isEnemy(b, row, col, sq)}

getAttackRange(b, row, col) ==
    LET piece == b[row][col] IN
    IF piece = null THEN {}
    ELSE CASE piece.type = "king" -> kingAttacks(b, row, col)
           [] piece.type = "defender" -> defenderAttacks(b, row, col)
           [] piece.type = "warrior" -> warriorAttacks(b, row, col)
           [] piece.type = "paladin" -> paladinAttacks(b, row, col)
           [] piece.type = "mage" -> mageAttacks(b, row, col)
           [] piece.type = "spearman" -> spearmanAttacks(b, row, col)
           [] piece.type = "archer" -> archerAttacks(b, row, col)
           [] piece.type = "bard" -> {}
           [] piece.type = "assassin" -> assassinAttacks(b, row, col)
           [] OTHER -> {}

\* ------------------------------------------------------- turn controller

\* a decay pass that stops at 1
decreaseMageCooldownsAboveOne(b) ==
    [r \in Rows |-> [c \in Cols |->
        IF b[r][c].type = "mage" /\ b[r][c].state > 1
        THEN [b[r][c] EXCEPT !.state = b[r][c].state - 1]
        ELSE b[r][c]]]

\* two decay passes in a row
decreaseMageCooldownsTwice(b) ==
    [r \in Rows |-> [c \in Cols |->
        IF b[r][c].type = "mage" /\ b[r][c].state > 0
        THEN [b[r][c] EXCEPT !.state = IF b[r][c].state > 1 THEN b[r][c].state - 2 ELSE 0]
        ELSE b[r][c]]]

decreaseMageCooldowns(b) ==
    [r \in Rows |-> [c \in Cols |->
        LET piece == b[r][c] IN
        IF piece # null /\ piece.type = "mage"
              /\ piece.state # NoState /\ piece.state > 0
        THEN [piece EXCEPT !.state = piece.state - 1]
        ELSE piece]]

\* (piece.state || 0)
stateOrZero(piece) == IF piece.state = NoState THEN 0 ELSE piece.state

\* a stance that alternates between 0 and 1
nextStanceOfTwo(piece) == (stateOrZero(piece) + 1) % 2

nextStance(piece) == (stateOrZero(piece) + 1) % 3

\* a capture that does not start the mage's cooldown
capturedPieceStateNoCooldown(piece) ==
    IF piece.type = "warrior" THEN nextStance(piece) ELSE piece.state

\* the state the acting piece has on the target square after a capture
capturedPieceState(piece) ==
    IF piece.type = "mage" THEN 2
    ELSE IF piece.type = "warrior" THEN nextStance(piece)
    ELSE piece.state

\* the state the acting piece has on the target square after a quiet move
movedPieceState(piece) ==
    IF piece.type = "warrior" THEN nextStance(piece) ELSE piece.state

\* the board a capture publishes: copy, relocate, set state, decay
\* a capture from a distance: the target is removed and the piece stays
captureBoardInPlace(b, fromRow, fromCol, row, col) ==
    LET piece == b[fromRow][fromCol]
        kept == SetSquare(b, fromRow, fromCol,
                    [piece EXCEPT !.state = capturedPieceState(piece)])
    IN  decreaseMageCooldowns(SetSquare(kept, row, col, null))

\* a capture that leaves the acting piece on its origin square as well
captureBoardLeavingOrigin(b, fromRow, fromCol, row, col) ==
    LET piece == b[fromRow][fromCol]
    IN  decreaseMageCooldowns(SetSquare(b, row, col,
            [piece EXCEPT !.state = capturedPieceState(piece)]))

captureBoard(b, fromRow, fromCol, row, col) ==
    LET piece == b[fromRow][fromCol]
        placed == SetSquare(b, row, col,
                      [piece EXCEPT !.state = capturedPieceState(piece)])
    IN  decreaseMageCooldowns(SetSquare(placed, fromRow, fromCol, null))

\* the board a quiet move publishes: copy, relocate, set state, decay
moveBoard(b, fromRow, fromCol, row, col) ==
    LET piece == b[fromRow][fromCol]
        placed == SetSquare(b, row, col,
                      [piece EXCEPT !.state = movedPieceState(piece)])
    IN  decreaseMageCooldowns(SetSquare(placed, fromRow, fromCol, null))

nextPlayer(currentPlayer) == IF currentPlayer = "white" THEN "black" ELSE "white"

\* `${winner} 승리!` with winner '백' for white and '흑' for black; the labels
\* are transliterated, TLA+ strings being ASCII
winnerLabel(color) == IF color = "white" THEN "baek" ELSE "heuk"
resultText(winner) == winner \o " seungri!"

\* gameOver === null
NoResult == "null"
\* selectedSquare === null
NoSquare == <<>>
\* playerColor === null
NoColor == "null"
\* gameId === ''
NoGameId == ""

\* ------------------------------------------------------------------ state

\* the connections; the first two are the pages of the played sessions
Clients == {1, 2, 3}
Pages == {1, 2}

VARIABLES
    board,            \* [Clients -> Board]: useState(initialBoard)
    selectedSquare,   \* [Clients -> NoSquare or <<row, col>>]
    currentPlayer,    \* [Clients -> PieceColors]
    validMoves,       \* [Clients -> set of squares]
    attackRanges,     \* [Clients -> set of squares]
    gameOver,         \* [Clients -> NoResult or a result string]
    initialWrites,    \* [Clients -> set of <<square, state>>]: states assigned to
                      \* objects of the page's initialBoard
    alias,            \* [Clients -> set of <<square, square of initialBoard>>]
    snapshotIntact,   \* [Clients -> BOOLEAN]: the last action left the board it
                      \* started from as it was
    gameId,           \* [Clients -> game id or NoGameId]
    playerColor,      \* [Clients -> PieceColors or NoColor]
    isMultiplayer,    \* [Clients -> BOOLEAN]
    waitingForPlayer, \* [Clients -> BOOLEAN]
    connected,        \* [Clients -> BOOLEAN]: socket.connected
    games,            \* server: game id -> game record or NoGame
    rooms,            \* server: game id -> the sockets that joined the room
    toServer,         \* [Clients -> Seq(message)]: emitted, not yet handled
    toClient,         \* [Clients -> Seq(message)]: emitted, not yet handled
    actions,          \* completed moves and captures so far
    resets,           \* presses of the reset button so far
    lobbies,          \* presses of the create and join buttons so far
    sends,            \* events emitted by connections that run no page so far
    last              \* the event that produced this state

heapVars == <<initialWrites, alias, snapshotIntact>>
sessionVars ==
    <<board, selectedSquare, currentPlayer, validMoves, attackRanges, gameOver,
      heapVars>>
lobbyVars == <<gameId, playerColor, isMultiplayer, waitingForPlayer>>
serverVars == <<games, rooms>>
netVars == <<connected, toServer, toClient>>
vars == <<sessionVars, lobbyVars, serverVars, netVars, actions, resets, lobbies,
          sends, last>>

\* ---------------------------------------------------------------- messages

Msg(t, id, b, cp, w, col) ==
    [type |-> t, gameId |-> id, board |-> b, currentPlayer |-> cp, winner |-> w,
     color |-> col]

NoBoard == <<>>

\* socket.emit('gameOver', { gameId, winner })
gameOverMsg(id, w) == Msg("gameOver", id, NoBoard, NoColor, w, NoColor)
\* socket.emit('move', { gameId, board: newBoard, currentPlayer: nextPlayer })
moveMsg(id, b, cp) == Msg("move", id, b, cp, NoResult, NoColor)

\* ------------------------------------------------------- handleSquareClick

\* which branch of handleSquareClick a click of client k on (row, col) takes
clickOutcome(k, row, col) ==
    IF gameOver[k] # NoResult THEN "ignored"
    ELSE IF isMultiplayer[k] /\ playerColor[k] # currentPlayer[k] THEN "ignored"
    ELSE IF selectedSquare[k] # NoSquare
    THEN LET piece == board[k][selectedSquare[k][1]][selectedSquare[k][2]]
             target == board[k][row][col]
         IN  IF piece # null /\ piece.color = currentPlayer[k]
             THEN IF <<row, col>> \in attackRanges[k]
                  THEN IF target # null /\ target.color # piece.color
                       THEN "capture"
                       ELSE "discard"
                  ELSE IF <<row, col>> \in validMoves[k]
                  THEN "move"
                  ELSE "discard"
             ELSE "discard"
    ELSE LET piece == board[k][row][col] IN
         IF piece # null /\ piece.color = currentPlayer[k]
         THEN "select"
         ELSE "ignored"

\* the piece on the selected square and the piece on the clicked square
selectedPiece(k) == board[k][selectedSquare[k][1]][selectedSquare[k][2]]

\* setBoard(newBoard) of a completed action; untouched otherwise
boardAfter(k, outcome, row, col) ==
    IF outcome = "capture"
    THEN captureBoard(board[k], selectedSquare[k][1], selectedSquare[k][2], row, col)
    ELSE IF outcome = "move"
    THEN moveBoard(board[k], selectedSquare[k][1], selectedSquare[k][2], row, col)
    ELSE board[k]

\* a turn that also passes when a piece is selected
playerAfterAnyClick(k, outcome) ==
    IF outcome \in {"move", "capture", "select"}
    THEN nextPlayer(currentPlayer[k])
    ELSE currentPlayer[k]

\* setCurrentPlayer(nextPlayer) of a completed action; untouched otherwise
playerAfter(k, outcome) ==
    IF outcome \in {"move", "capture"}
    THEN nextPlayer(currentPlayer[k])
    ELSE currentPlayer[k]

\* a result that names the colour of the captured king
resultAfterNamingLoser(k, outcome, row, col) ==
    IF outcome = "capture" /\ board[k][row][col].type = "king"
    THEN resultText(winnerLabel(board[k][row][col].color))
    ELSE gameOver[k]

\* setGameOver(`${winner} 승리!`) when a capture takes a king
resultAfter(k, outcome, row, col) ==
    IF outcome = "capture" /\ board[k][row][col].type = "king"
    THEN resultText(winnerLabel(selectedPiece(k).color))
    ELSE gameOver[k]

\* a selection set before the ownership test
selectionAfterAnyPiece(k, outcome, row, col) ==
    IF outcome = "select" \/ (outcome = "ignored" /\ board[k][row][col] # null)
    THEN <<row, col>>
    ELSE IF outcome = "ignored" THEN selectedSquare[k]
    ELSE NoSquare

\* the selection: set by a select, cleared by whatever is clicked while selected
selectionAfter(k, outcome, row, col) ==
    IF outcome = "select" THEN <<row, col>>
    ELSE IF outcome = "ignored" THEN selectedSquare[k]
    ELSE NoSquare

\* a discard that keeps the cached move set
movesAfterKept(k, outcome, row, col) ==
    IF outcome = "select" THEN getValidMoves(board[k], row, col)
    ELSE IF outcome \in {"ignored", "discard"} THEN validMoves[k]
    ELSE {}

movesAfter(k, outcome, row, col) ==
    IF outcome = "select" THEN getValidMoves(board[k], row, col)
    ELSE IF outcome = "ignored" THEN validMoves[k]
    ELSE {}

attacksAfter(k, outcome, row, col) ==
    IF outcome = "select" THEN getAttackRange(board[k], row, col)
    ELSE IF outcome = "ignored" THEN attackRanges[k]
    ELSE {}

\* what the click emits, in order: gameOver (a king was captured), then move
clickEmits(k, outcome, row, col) ==
    IF isMultiplayer[k] /\ outcome \in {"move", "capture"}
    THEN (IF outcome = "capture" /\ board[k][row][col].type = "king"
          THEN <<gameOverMsg(gameId[k], winnerLabel(selectedPiece(k).color))>>
          ELSE <<>>)
         \o <<moveMsg(gameId[k], boardAfter(k, outcome, row, col),
                      nextPlayer(currentPlayer[k]))>>
    ELSE <<>>

\* ----------------------------------------------------------- shared objects

\* A board is an array of row arrays of piece objects.  board.map(r => [...r])
\* gives a new snapshot rows of its own, so an assignment to one of its squares
\* reaches no other snapshot; the piece objects themselves are shared by all
\* the snapshots that hold them, initialBoard included.  alias[k] holds
\* <<sq, src>> when the board of page k has on sq the object that initialBoard
\* has on src; initialWrites[k] holds <<src, st>> when the state of the
\* object initialBoard has on src was last assigned st.
NoAlias == {}
initialAlias == {<<sq, sq>> : sq \in {t \in Squares : initialBoard[t[1]][t[2]] # null}}

\* the square of initialBoard whose object the alias set a has on sq
aliasOf(a, sq) ==
    IF \E p \in a : p[1] = sq
    THEN (CHOOSE p \in a : p[1] = sq)[2]
    ELSE NoSquare

\* what the page's initialBoard reads now
initialPlacement(k) ==
    [r \in Rows |-> [c \in Cols |->
        IF \E w \in initialWrites[k] : w[1] = <<r, c>>
        THEN [initialBoard[r][c] EXCEPT
                 !.state = (CHOOSE w \in initialWrites[k] : w[1] = <<r, c>>)[2]]
        ELSE initialBoard[r][c]]]

\* newBoard[row][col] = piece: the object of the old snapshot is placed itself
placedObjectShared(from) == from

\* newBoard[row][col] = { ...piece }: the object placed on the target square
\* is a new one, not the object standing on `from` in the old snapshot
placedObject(from) == NoSquare

\* the object on sq of b with its state assigned
writeObject(b, sq, st) ==
    SetSquare(b, sq[1], sq[2], [b[sq[1]][sq[2]] EXCEPT !.state = st])

\* newBoard[row][col]!.state = ...: the state the action assigns, if any
writtenState(k, outcome) ==
    IF outcome = "capture" THEN capturedPieceState(selectedPiece(k))
    ELSE movedPieceState(selectedPiece(k))

\* the snapshot the action started from, as it reads once the action is done
snapshotAfter(k, outcome, row, col) ==
    IF outcome \in {"move", "capture"} /\ placedObject(selectedSquare[k]) # NoSquare
    THEN writeObject(board[k], placedObject(selectedSquare[k]),
                     writtenState(k, outcome))
    ELSE board[k]

\* the states assigned to initialBoard's objects once the action is done
initialAfter(k, outcome, row, col) ==
    LET obj == placedObject(selectedSquare[k])
        src == aliasOf(alias[k], obj)
    IN  IF outcome \in {"move", "capture"} /\ obj # NoSquare /\ src # NoSquare
        THEN {w \in initialWrites[k] : w[1] # src}
               \cup {<<src, writtenState(k, outcome)>>}
        ELSE initialWrites[k]

\* the new snapshot before the decay pass
placedBoard(k, outcome, row, col) ==
    SetSquare(SetSquare(board[k], row, col,
                  [selectedPiece(k) EXCEPT !.state = writtenState(k, outcome)]),
              selectedSquare[k][1], selectedSquare[k][2], null)

\* the objects of the new snapshot: the placed one, none on the origin, a new
\* one ({ ...piece, state }) for every mage the decay pass changes
aliasAfter(k, outcome, row, col) ==
    IF outcome \in {"move", "capture"}
    THEN LET obj == placedObject(selectedSquare[k])
             src == aliasOf(alias[k], obj)
             kept == {p \in alias[k] : p[1] \notin {<<row, col>>, selectedSquare[k]}}
             placed == IF src = NoSquare THEN kept
                       ELSE kept \cup {<<<<row, col>>, src>>}
             before == placedBoard(k, outcome, row, col)
             after == decreaseMageCooldowns(before)
         IN  {p \in placed : after[p[1][1]][p[1][2]] = before[p[1][1]][p[1][2]]}
    ELSE alias[k]

\* the event record: the latest event, and the latest completed action
Event(ev, k) == [last EXCEPT !.ev = ev, !.who = k]
Completed(ev, k, from, to) ==
    [ev |-> ev, who |-> k, act |-> ev, from |-> from, to |-> to]
NoAction(ev, k) ==
    [ev |-> ev, who |-> k, act |-> "none", from |-> NoSquare, to |-> NoSquare]

handleSquareClick(k, row, col) ==
    LET outcome == clickOutcome(k, row, col) IN
    /\ connected[k]
    /\ board' = [board EXCEPT ![k] = boardAfter(k, outcome, row, col)]
    /\ currentPlayer' = [currentPlayer EXCEPT ![k] = playerAfter(k, outcome)]
    /\ gameOver' = [gameOver EXCEPT ![k] = resultAfter(k, outcome, row, col)]
    /\ initialWrites' =
         [initialWrites EXCEPT ![k] = initialAfter(k, outcome, row, col)]
    /\ alias' = [alias EXCEPT ![k] = aliasAfter(k, outcome, row, col)]
    /\ snapshotIntact' =
         [snapshotIntact EXCEPT ![k] =
             IF outcome \in {"move", "capture"}
             THEN snapshotAfter(k, outcome, row, col) = board[k]
             ELSE snapshotIntact[k]]
    /\ selectedSquare' =
         [selectedSquare EXCEPT ![k] = selectionAfter(k, outcome, row, col)]
    /\ validMoves' = [validMoves EXCEPT ![k] = movesAfter(k, outcome, row, col)]
    /\ attackRanges' =
         [attackRanges EXCEPT ![k] = attacksAfter(k, outcome, row, col)]
    /\ toServer' =
         [toServer EXCEPT ![k] = toServer[k] \o clickEmits(k, outcome, row, col)]
    /\ actions' = IF outcome \in {"move", "capture"} THEN actions + 1 ELSE actions
    /\ last' = IF outcome \in {"move", "capture"}
               THEN Completed(outcome, k, selectedSquare[k], <<row, col>>)
               ELSE Event(outcome, k)
    /\ UNCHANGED <<lobbyVars, serverVars, connected, toClient, resets, lobbies, sends>>

\* The squares a click is drawn from.  A click on a square in neither cached
\* set takes the same branch whichever square it is when a square is selected
\* (the selection is discarded, whatever stands there) and, when none is,
\* whenever the square holds no piece of the colour to move (the click is
\* ignored), so one such square stands for all.
quietSquares(k) ==
    {sq \in Squares :
        /\ sq \notin (validMoves[k] \cup attackRanges[k])
        /\ \/ selectedSquare[k] # NoSquare
           \/ board[k][sq[1]][sq[2]].color # currentPlayer[k]}

ClickSquares(k) ==
    (Squares \ quietSquares(k))
      \cup (IF quietSquares(k) = {} THEN {}
            ELSE {CHOOSE sq \in quietSquares(k) : TRUE})

\* a click by client k on one of `squares`; a behaviour holds at most `bound`
\* completed actions and ends with the last of them, or with the clicks that
\* follow a recorded result
ClickIn(k, bound, squares) ==
    /\ actions < bound \/ gameOver[k] # NoResult
    /\ \E sq \in squares : handleSquareClick(k, sq[1], sq[2])

Click(k, bound) == ClickIn(k, bound, ClickSquares(k))

\* --------------------------------------------------------------- resetGame

\* the ten setters of resetGame; setBoard(initialBoard) hands the page the
\* initialBoard object itself
resetState(k) ==
    /\ board' = [board EXCEPT ![k] = initialPlacement(k)]
    /\ alias' = [alias EXCEPT ![k] = initialAlias]
    /\ UNCHANGED <<initialWrites, snapshotIntact>>
    /\ selectedSquare' = [selectedSquare EXCEPT ![k] = NoSquare]
    /\ validMoves' = [validMoves EXCEPT ![k] = {}]
    /\ attackRanges' = [attackRanges EXCEPT ![k] = {}]
    /\ currentPlayer' = [currentPlayer EXCEPT ![k] = "white"]
    /\ gameOver' = [gameOver EXCEPT ![k] = NoResult]
    /\ isMultiplayer' = [isMultiplayer EXCEPT ![k] = FALSE]
    /\ playerColor' = [playerColor EXCEPT ![k] = NoColor]
    /\ gameId' = [gameId EXCEPT ![k] = NoGameId]
    /\ waitingForPlayer' = [waitingForPlayer EXCEPT ![k] = FALSE]

\* the reset button (and the new-game button of the result modal)
resetGame(k) ==
    /\ connected[k]
    /\ resets < MaxResets
    /\ resetState(k)
    /\ resets' = resets + 1
    /\ last' = NoAction("reset", k)
    /\ UNCHANGED <<serverVars, netVars, actions, lobbies, sends>>

\* ------------------------------------------------------------ local play

NoGame == [players |-> <<>>, board |-> NoBoard, currentPlayer |-> NoColor,
           whitePlayer |-> 0, blackPlayer |-> 0]

\* the ids Math.random().toString(36).substring(7) can return: the empty
\* string (Math.random() = 0.5 prints as "0.i"), which is also the value of
\* the page's gameId while it is in no game, and two non-empty ones
GameIds == {NoGameId, "g1", "g2"}

\* the state after construction; the page starts on initialBoard with white
\* to move, a drawn start puts another board and active colour in their place
InitOn(b0, cp) ==
    /\ board = [k \in Clients |-> IF k = 1 THEN b0 ELSE initialBoard]
    /\ selectedSquare = [k \in Clients |-> NoSquare]
    /\ currentPlayer = [k \in Clients |-> IF k = 1 THEN cp ELSE "white"]
    /\ validMoves = [k \in Clients |-> {}]
    /\ attackRanges = [k \in Clients |-> {}]
    /\ gameOver = [k \in Clients |-> NoResult]
    /\ initialWrites = [k \in Clients |-> {}]
    /\ alias = [k \in Clients |->
                  IF k = 1 /\ b0 # initialBoard THEN NoAlias ELSE initialAlias]
    /\ snapshotIntact = [k \in Clients |-> TRUE]
    /\ gameId = [k \in Clients |-> NoGameId]
    /\ playerColor = [k \in Clients |-> NoColor]
    /\ isMultiplayer = [k \in Clients |-> FALSE]
    /\ waitingForPlayer = [k \in Clients |-> FALSE]
    /\ connected = [k \in Clients |-> TRUE]
    /\ games = [g \in GameIds |-> NoGame]
    /\ rooms = [g \in GameIds |-> {}]
    /\ toServer = [k \in Clients |-> <<>>]
    /\ toClient = [k \in Clients |-> <<>>]
    /\ actions = 0
    /\ resets = 0
    /\ lobbies = 0
    /\ sends = 0
    /\ last = NoAction("init", 0)

Init == InitOn(initialBoard, "white")

\* one page played locally (no session) from the initial placement
LocalClick == Click(1, MaxActions)
\* the reset button, pressed once something has been played: a reset of the
\* untouched session only clears the selection
LocalReset == actions >= 1 /\ resetGame(1)
LocalNext == LocalClick \/ LocalReset
SpecLocal == Init /\ [][LocalNext]_vars

\* a local game from the initial placement played on the squares of the two
\* mages, the squares next to them, the pieces that face them down their
\* files, the two kings, and one warrior and one bard of each colour with a
\* square both can reach
MageGameSquares ==
    {<<7, 4>>, <<6, 4>>, <<0, 4>>, <<0, 3>>, <<1, 3>>, <<7, 3>>,
     <<0, 2>>, <<7, 5>>,
     <<7, 0>>, <<7, 1>>, <<5, 1>>, <<0, 7>>, <<0, 6>>, <<2, 6>>}
MageGameClick == ClickIn(1, MaxGameActions, MageGameSquares)
MageGameNext == MageGameClick
SpecMageGame == Init /\ [][MageGameNext]_vars

\* ------------------------------------------------------------ drawn boards

\* Boards the page can hold in mid-game (a relayed board replaces the local
\* one wholesale): a sparse position of kings, bards and defenders of both
\* colours, and one more piece of any kind, colour and state on one of the
\* ProbeSquares.
emptyBoard == [r \in Rows |-> EmptyRow]

RECURSIVE placeAll(_, _)
placeAll(b, placements) ==
    IF placements = <<>> THEN b
    ELSE placeAll(SetSquare(b, placements[1][1], placements[1][2], placements[1][3]),
                  Tail(placements))

Background ==
    placeAll(emptyBoard,
        << <<0, 2, P("king", "black")>>,
           <<7, 5, P("king", "white")>>,
           <<2, 5, P("defender", "black")>>,
           <<5, 2, P("defender", "white")>>,
           <<3, 3, P("bard", "black")>>,
           <<4, 4, P("bard", "white")>> >>)

ProbePieces ==
    {P(t, c) : t \in PieceTypes \ {"warrior", "mage"}, c \in PieceColors}
      \cup {PS(t, c, st) : t \in {"warrior", "mage"}, c \in PieceColors, st \in 0..2}

ProbeSquares ==
    {<<4, 1>>, <<3, 4>>, <<5, 5>>, <<2, 2>>, <<1, 2>>, <<6, 5>>, <<0, 7>>, <<7, 0>>}

DrawnBoards ==
    {SetSquare(Background, sq[1], sq[2], p) : sq \in ProbeSquares, p \in ProbePieces}

InitDrawn == \E b0 \in DrawnBoards, cp \in PieceColors : InitOn(b0, cp)

DrawnClick == Click(1, MaxDrawnActions)
DrawnReset == actions = MaxDrawnActions /\ resetGame(1)
DrawnNext == DrawnClick \/ DrawnReset
SpecDrawn == InitDrawn /\ [][DrawnNext]_vars

\* The drawn boards whose extra piece stands next to both bards or next to
\* the white bard only.
AuraSquares == {<<3, 4>>, <<5, 5>>}

AuraBoards ==
    {SetSquare(Background, sq[1], sq[2], p) : sq \in AuraSquares, p \in ProbePieces}

InitAura == \E b0 \in AuraBoards, cp \in PieceColors : InitOn(b0, cp)

AuraClick == Click(1, MaxDrawnActions)
AuraReset == actions = MaxDrawnActions /\ resetGame(1)
AuraNext == AuraClick \/ AuraReset
SpecAura == InitAura /\ [][AuraNext]_vars

\* The drawn boards whose extra piece is of one of `types` and stands on one
\* of `squares`; the page plays them as it plays any drawn board.
ProbeBoardsOf(squares, types) ==
    {SetSquare(Background, sq[1], sq[2], p) :
        sq \in squares, p \in {q \in ProbePieces : q.type \in types}}

\* a piece of any kind in the middle of the board, between the two bards
InitTargets ==
    \E b0 \in ProbeBoardsOf({<<3, 4>>}, PieceTypes), cp \in PieceColors : InitOn(b0, cp)
SpecTargets == InitTargets /\ [][DrawnNext]_vars

\* the pieces whose reach depends on where they stand and which way they face
InitRanged ==
    \E b0 \in ProbeBoardsOf(ProbeSquares, {"assassin", "spearman", "archer"}),
       cp \in PieceColors : InitOn(b0, cp)
SpecRanged == InitRanged /\ [][DrawnNext]_vars

\* a third bard of either colour on each probe square, corners included
InitBard ==
    \E b0 \in ProbeBoardsOf(ProbeSquares, {"bard"}), cp \in PieceColors : InitOn(b0, cp)
SpecBard == InitBard /\ [][DrawnNext]_vars

\* the pieces that carry a state: warriors in each stance, mages on each
\* cooldown value
InitStance ==
    \E b0 \in ProbeBoardsOf(ProbeSquares, {"warrior", "mage"}),
       cp \in PieceColors : InitOn(b0, cp)
SpecStance == InitStance /\ [][DrawnNext]_vars

\* -------------------------------------------------------------- duel boards

\* Longer play on boards of low mobility: two defenders a side and one mage or
\* warrior of either colour, in any state, within reach of an enemy.
DuelBackground ==
    placeAll(emptyBoard,
        << <<2, 3, P("defender", "black")>>,
           <<3, 5, P("defender", "black")>>,
           <<5, 4, P("defender", "white")>>,
           <<4, 2, P("defender", "white")>> >>)

DuelPieces ==
    {PS(t, c, st) : t \in {"warrior", "mage"}, c \in PieceColors, st \in 0..2}

DuelSquare == <<4, 5>>

DuelBoards ==
    {SetSquare(DuelBackground, DuelSquare[1], DuelSquare[2], p) : p \in DuelPieces}

InitDuel == \E b0 \in DuelBoards, cp \in PieceColors : InitOn(b0, cp)

DuelClick == Click(1, MaxDuelActions)
DuelReset == actions = MaxDuelActions /\ resetGame(1)
DuelNext == DuelClick \/ DuelReset
SpecDuel == InitDuel /\ [][DuelNext]_vars

\* ------------------------------------------------------------ the lobby

\* the menu is rendered while !isMultiplayer && !waitingForPlayer
menuVisible(k) == ~isMultiplayer[k] /\ ~waitingForPlayer[k]

createGameMsg == Msg("createGame", NoGameId, NoBoard, NoColor, NoResult, NoColor)
joinGameMsg(id) == Msg("joinGame", id, NoBoard, NoColor, NoResult, NoColor)
disconnectMsg == Msg("disconnect", NoGameId, NoBoard, NoColor, NoResult, NoColor)

\* the create button: socket.emit('createGame')
createGame(k) ==
    /\ connected[k]
    /\ menuVisible(k)
    /\ lobbies < MaxLobby
    /\ lobbies' = lobbies + 1
    /\ toServer' = [toServer EXCEPT ![k] = Append(toServer[k], createGameMsg)]
    /\ last' = Event("createGame", k)
    /\ UNCHANGED <<sessionVars, lobbyVars, serverVars, connected, toClient,
                   actions, resets, sends>>

\* the join button with the id typed into the prompt: `if (id && socket &&
\* socket.connected)`, which an empty id fails, then
\* socket.emit('joinGame', id); setIsMultiplayer(true)
joinGame(k, id) ==
    /\ id # ""
    /\ connected[k]
    /\ menuVisible(k)
    /\ lobbies < MaxLobby
    /\ lobbies' = lobbies + 1
    /\ toServer' = [toServer EXCEPT ![k] = Append(toServer[k], joinGameMsg(id))]
    /\ isMultiplayer' = [isMultiplayer EXCEPT ![k] = TRUE]
    /\ last' = Event("joinGame", k)
    /\ UNCHANGED <<sessionVars, gameId, playerColor, waitingForPlayer,
                   serverVars, connected, toClient, actions, resets, sends>>

\* the tab is closed: what was emitted reaches the server first, then the
\* server sees the disconnect; nothing is delivered to the closed page
closePage(k) ==
    /\ connected[k]
    /\ connected' = [connected EXCEPT ![k] = FALSE]
    /\ toServer' = [toServer EXCEPT ![k] = Append(toServer[k], disconnectMsg)]
    /\ toClient' = [toClient EXCEPT ![k] = <<>>]
    /\ last' = Event("closePage", k)
    /\ UNCHANGED <<sessionVars, lobbyVars, serverVars, actions, resets, lobbies, sends>>

\* ----------------------------------------------------------- the server

\* queues q with msg emitted to every connected socket of `to`
Emit(q, to, msg) ==
    [c \in Clients |-> IF c \in to /\ connected[c] THEN Append(q[c], msg) ELSE q[c]]

hasMsg(k, t) == toServer[k] # <<>> /\ Head(toServer[k]).type = t

popServer(k) == toServer' = [toServer EXCEPT ![k] = Tail(toServer[k])]

\* a game record that seats the creator as black as well
newGameBothSeats(k) ==
    [players |-> <<k>>, board |-> NoBoard, currentPlayer |-> "white",
     whitePlayer |-> k, blackPlayer |-> k]

newGame(k) ==
    [players |-> <<k>>, board |-> NoBoard, currentPlayer |-> "white",
     whitePlayer |-> k, blackPlayer |-> 0]

gameCreatedMsg(g) == Msg("gameCreated", g, NoBoard, NoColor, NoResult, "white")
gameJoinedMsg(g) == Msg("gameJoined", g, NoBoard, NoColor, NoResult, "black")
gameStartMsg == Msg("gameStart", NoGameId, NoBoard, NoColor, NoResult, NoColor)
\* a relay that hands the turn back to the colour that moved
opponentMoveMsgTurnKept(b, cp) ==
    Msg("opponentMove", NoGameId, b, IF cp = "white" THEN "black" ELSE "white",
        NoResult, NoColor)

opponentMoveMsg(b, cp) == Msg("opponentMove", NoGameId, b, cp, NoResult, NoColor)
gameOverRelay(w) == Msg("gameOver", NoGameId, NoBoard, NoColor, w, NoColor)
playerDisconnectedMsg ==
    Msg("playerDisconnected", NoGameId, NoBoard, NoColor, NoResult, NoColor)
\* a refusal that reads as the start signal
errorMsgAsStart == gameStartMsg

errorMsg == Msg("error", NoGameId, NoBoard, NoColor, "Game not found or full", NoColor)

\* socket.on('createGame'): the id is Math.random().toString(36).substring(7),
\* any id of GameIds, the empty one and one in use included
onCreateGame(k) ==
    /\ hasMsg(k, "createGame")
    /\ \E g \in GameIds :
          /\ games' = [games EXCEPT ![g] = newGame(k)]
          /\ rooms' = [rooms EXCEPT ![g] = rooms[g] \cup {k}]
          /\ toClient' = Emit(toClient, {k}, gameCreatedMsg(g))
    /\ popServer(k)
    /\ last' = Event("onCreateGame", k)
    /\ UNCHANGED <<sessionVars, lobbyVars, connected, actions, resets, lobbies, sends>>

\* a test that admits a caller to any stored game
joinableNotEmpty(g) == games[g] # NoGame

joinable(g) == games[g] # NoGame /\ Len(games[g].players) = 1

\* socket.on('joinGame')
onJoinGame(k) ==
    /\ hasMsg(k, "joinGame")
    /\ LET g == Head(toServer[k]).gameId IN
       IF g \in GameIds /\ joinable(g)
       THEN /\ games' = [games EXCEPT ![g].players = Append(@, k),
                                      ![g].blackPlayer = k]
            /\ rooms' = [rooms EXCEPT ![g] = rooms[g] \cup {k}]
            /\ toClient' = Emit(Emit(toClient, rooms[g] \cup {k}, gameStartMsg),
                                {k}, gameJoinedMsg(g))
       ELSE /\ toClient' = Emit(toClient, {k}, errorMsg)
            /\ UNCHANGED <<games, rooms>>
    /\ popServer(k)
    /\ last' = Event("onJoinGame", k)
    /\ UNCHANGED <<sessionVars, lobbyVars, connected, actions, resets, lobbies, sends>>

\* socket.on('move'): stored, and relayed to the room without the sender
onMove(k) ==
    /\ hasMsg(k, "move")
    /\ LET m == Head(toServer[k])
           g == m.gameId
       IN  IF g \in GameIds /\ games[g] # NoGame
           THEN /\ games' = [games EXCEPT ![g].board = m.board,
                                          ![g].currentPlayer = m.currentPlayer]
                /\ toClient' = Emit(toClient, rooms[g] \ {k},
                                    opponentMoveMsg(m.board, m.currentPlayer))
           ELSE UNCHANGED <<games, toClient>>
    /\ popServer(k)
    /\ last' = Event("onMove", k)
    /\ UNCHANGED <<sessionVars, lobbyVars, rooms, connected, actions, resets, lobbies, sends>>

\* socket.on('gameOver'): relayed to the whole room, the sender included
onGameOver(k) ==
    /\ hasMsg(k, "gameOver")
    /\ LET m == Head(toServer[k])
           g == m.gameId
       IN  toClient' = Emit(toClient, IF g \in GameIds THEN rooms[g] ELSE {},
                            gameOverRelay(m.winner))
    /\ popServer(k)
    /\ last' = Event("onGameOver", k)
    /\ UNCHANGED <<sessionVars, lobbyVars, serverVars, connected, actions, resets, lobbies, sends>>

\* the games that connection k created
gamesCreatedBy(k) ==
    {g \in GameIds : games[g] # NoGame /\ games[g].whitePlayer = k}

gamesOf(k) ==
    {g \in GameIds :
        /\ games[g] # NoGame
        /\ \E i \in 1..Len(games[g].players) : games[g].players[i] = k}

\* socket.on('disconnect'): the socket has left its rooms; every game it
\* plays in is announced to the room and deleted
onDisconnect(k) ==
    /\ hasMsg(k, "disconnect")
    /\ games' = [g \in GameIds |-> IF g \in gamesOf(k) THEN NoGame ELSE games[g]]
    /\ rooms' = [g \in GameIds |-> rooms[g] \ {k}]
    /\ toClient' =
         [c \in Clients |->
            IF connected[c] /\ c # k
            THEN toClient[c] \o
                   [i \in 1..Cardinality({g \in gamesOf(k) : c \in rooms[g]}) |->
                       playerDisconnectedMsg]
            ELSE toClient[c]]
    /\ popServer(k)
    /\ last' = Event("onDisconnect", k)
    /\ UNCHANGED <<sessionVars, lobbyVars, connected, actions, resets, lobbies, sends>>

\* ------------------------------------------------- the page's socket handlers

gotMsg(k, t) == connected[k] /\ toClient[k] # <<>> /\ Head(toClient[k]).type = t

popClient(k) == toClient' = [toClient EXCEPT ![k] = Tail(toClient[k])]

\* newSocket.on('gameCreated')
gameCreated(k) ==
    /\ gotMsg(k, "gameCreated")
    /\ gameId' = [gameId EXCEPT ![k] = Head(toClient[k]).gameId]
    /\ playerColor' = [playerColor EXCEPT ![k] = Head(toClient[k]).color]
    /\ waitingForPlayer' = [waitingForPlayer EXCEPT ![k] = TRUE]
    /\ popClient(k)
    /\ last' = Event("gameCreated", k)
    /\ UNCHANGED <<sessionVars, isMultiplayer, serverVars, connected, toServer,
                   actions, resets, lobbies, sends>>

\* newSocket.on('gameJoined')
gameJoined(k) ==
    /\ gotMsg(k, "gameJoined")
    /\ gameId' = [gameId EXCEPT ![k] = Head(toClient[k]).gameId]
    /\ playerColor' = [playerColor EXCEPT ![k] = Head(toClient[k]).color]
    /\ popClient(k)
    /\ last' = Event("gameJoined", k)
    /\ UNCHANGED <<sessionVars, isMultiplayer, waitingForPlayer, serverVars,
                   connected, toServer, actions, resets, lobbies, sends>>

\* newSocket.on('gameStart')
gameStart(k) ==
    /\ gotMsg(k, "gameStart")
    /\ waitingForPlayer' = [waitingForPlayer EXCEPT ![k] = FALSE]
    /\ isMultiplayer' = [isMultiplayer EXCEPT ![k] = TRUE]
    /\ popClient(k)
    /\ last' = Event("gameStart", k)
    /\ UNCHANGED <<sessionVars, gameId, playerColor, serverVars, connected,
                   toServer, actions, resets, lobbies, sends>>

\* newSocket.on('opponentMove'): setBoard(board); setCurrentPlayer(currentPlayer);
\* the received board is made of objects of its own
opponentMove(k) ==
    /\ gotMsg(k, "opponentMove")
    /\ board' = [board EXCEPT ![k] = Head(toClient[k]).board]
    /\ currentPlayer' = [currentPlayer EXCEPT ![k] = Head(toClient[k]).currentPlayer]
    /\ popClient(k)
    /\ last' = Event("opponentMove", k)
    /\ alias' = [alias EXCEPT ![k] = NoAlias]
    /\ UNCHANGED <<selectedSquare, validMoves, attackRanges, gameOver, lobbyVars,
                   serverVars, connected, toServer, actions, resets, lobbies, sends,
                   initialWrites, snapshotIntact>>

\* newSocket.on('gameOver'): setGameOver(winner)
gameOverReceived(k) ==
    /\ gotMsg(k, "gameOver")
    /\ gameOver' = [gameOver EXCEPT ![k] = Head(toClient[k]).winner]
    /\ popClient(k)
    /\ last' = Event("gameOver", k)
    /\ UNCHANGED <<board, selectedSquare, currentPlayer, validMoves, attackRanges,
                   lobbyVars, serverVars, connected, toServer, actions, resets, lobbies, sends,
                   heapVars>>

\* newSocket.on('playerDisconnected'): alert, then resetGame()
playerDisconnected(k) ==
    /\ gotMsg(k, "playerDisconnected")
    /\ resetState(k)
    /\ popClient(k)
    /\ last' = NoAction("playerDisconnected", k)
    /\ UNCHANGED <<serverVars, connected, toServer, actions, resets, lobbies, sends>>

\* newSocket.on('error'): alert(message)
errorReceived(k) ==
    /\ gotMsg(k, "error")
    /\ popClient(k)
    /\ last' = Event("error", k)
    /\ UNCHANGED <<sessionVars, lobbyVars, serverVars, connected, toServer,
                   actions, resets, lobbies, sends>>

\* ------------------------------------------------------------ the session

\* The squares clicked in a session. The first page clicks the white assassin,
\* a square of its successor quadrant and the black king, which the relocated
\* assassin can capture; the second page clicks a black defender and the
\* square ahead of it.
NetSquares(k) ==
    IF k = 1 THEN {<<7, 7>>, <<2, 7>>, <<0, 2>>} ELSE {<<1, 6>>, <<2, 6>>}

NetClick == \E k \in Pages : ClickIn(k, MaxNetActions, NetSquares(k))
NetReset == \E k \in Pages : resetGame(k)
NetCreate == \E k \in Pages : createGame(k)
NetJoin == \E k \in Pages, id \in GameIds : joinGame(k, id)
NetClose == \E k \in Pages : closePage(k)
ServerStep ==
    \E k \in Clients :
        \/ onCreateGame(k)
        \/ onJoinGame(k)
        \/ onMove(k)
        \/ onGameOver(k)
        \/ onDisconnect(k)
PageStep ==
    \E k \in Clients :
        \/ gameCreated(k)
        \/ gameJoined(k)
        \/ gameStart(k)
        \/ opponentMove(k)
        \/ gameOverReceived(k)
        \/ playerDisconnected(k)
        \/ errorReceived(k)

NetNext ==
    \/ NetClick
    \/ NetReset
    \/ NetCreate
    \/ NetJoin
    \/ NetClose
    \/ ServerStep
    \/ PageStep

SpecNet == Init /\ [][NetNext]_vars

\* ------------------------------------------------- the two page variants

\* The page of part_000, run by page 2 beside the page of part_001 (page 1);
\* each page takes its own clicks.  The pages differ in their initialBoard
\* (king and spearman change places, the mages carry no state), in the test
\* the create and join buttons make of the socket, and in the listener for
\* 'error', which part_000 lacks.  The click handlers differ in three places:
\* getValidMoves gives a mage no move, a capturing mage stays on its square
\* with state 2 while the target square is emptied, and no action runs a
\* decay pass.

\* getValidMoves of part_000: `case 'mage': break;`, every other case as in
\* part_001
getValidMoves0(b, row, col) ==
    IF b[row][col] # null /\ b[row][col].type = "mage" THEN {}
    ELSE getValidMoves(b, row, col)

\* the board a capture of part_000 publishes
captureBoard0(b, fromRow, fromCol, row, col) ==
    LET piece == b[fromRow][fromCol] IN
    IF piece.type = "mage"
    THEN SetSquare(SetSquare(b, row, col, null), fromRow, fromCol,
                   [piece EXCEPT !.state = 2])
    ELSE SetSquare(SetSquare(b, row, col,
                       [piece EXCEPT !.state = movedPieceState(piece)]),
                   fromRow, fromCol, null)

\* the board a quiet move of part_000 publishes
moveBoard0(b, fromRow, fromCol, row, col) ==
    LET piece == b[fromRow][fromCol] IN
    SetSquare(SetSquare(b, row, col,
                  [piece EXCEPT !.state = movedPieceState(piece)]),
              fromRow, fromCol, null)

boardAfter0(k, outcome, row, col) ==
    IF outcome = "capture"
    THEN captureBoard0(board[k], selectedSquare[k][1], selectedSquare[k][2], row, col)
    ELSE IF outcome = "move"
    THEN moveBoard0(board[k], selectedSquare[k][1], selectedSquare[k][2], row, col)
    ELSE board[k]

movesAfter0(k, outcome, row, col) ==
    IF outcome = "select" THEN getValidMoves0(board[k], row, col)
    ELSE IF outcome = "ignored" THEN validMoves[k]
    ELSE {}

clickEmits0(k, outcome, row, col) ==
    IF isMultiplayer[k] /\ outcome \in {"move", "capture"}
    THEN (IF outcome = "capture" /\ board[k][row][col].type = "king"
          THEN <<gameOverMsg(gameId[k], winnerLabel(selectedPiece(k).color))>>
          ELSE <<>>)
         \o <<moveMsg(gameId[k], boardAfter0(k, outcome, row, col),
                      nextPlayer(currentPlayer[k]))>>
    ELSE <<>>

\* the objects of the new snapshot of part_000: new ones on the two squares
\* the action wrote, the old ones elsewhere
aliasAfter0(k, outcome, row, col) ==
    IF outcome \in {"move", "capture"}
    THEN {p \in alias[k] : p[1] \notin {<<row, col>>, selectedSquare[k]}}
    ELSE alias[k]

\* initialBoard of part_000: spearman, mage, king on the black rank and king,
\* mage, spearman on the white rank; the mages carry no state
initialBoard0 ==
    [r \in Rows |->
        CASE r = 0 -> Row8(P("assassin", "black"), P("archer", "black"),
                           P("spearman", "black"), P("mage", "black"),
                           P("king", "black"), P("paladin", "black"),
                           P("bard", "black"), PS("warrior", "black", 0))
          [] r = 1 -> Row8(P("defender", "black"), P("defender", "black"),
                           null, null, null, null,
                           P("defender", "black"), P("defender", "black"))
          [] r = 6 -> Row8(P("defender", "white"), P("defender", "white"),
                           null, null, null, null,
                           P("defender", "white"), P("defender", "white"))
          [] r = 7 -> Row8(PS("warrior", "white", 0), P("bard", "white"),
                           P("paladin", "white"), P("king", "white"),
                           P("mage", "white"), P("spearman", "white"),
                           P("archer", "white"), P("assassin", "white"))
          [] OTHER -> EmptyRow]

\* the ten setters of resetGame of part_000; the page is handed its own
\* initialBoard, which holds pieces on the same squares as that of part_001
resetState0(k) ==
    /\ board' = [board EXCEPT ![k] = initialBoard0]
    /\ alias' = [alias EXCEPT ![k] = initialAlias]
    /\ UNCHANGED <<initialWrites, snapshotIntact>>
    /\ selectedSquare' = [selectedSquare EXCEPT ![k] = NoSquare]
    /\ validMoves' = [validMoves EXCEPT ![k] = {}]
    /\ attackRanges' = [attackRanges EXCEPT ![k] = {}]
    /\ currentPlayer' = [currentPlayer EXCEPT ![k] = "white"]
    /\ gameOver' = [gameOver EXCEPT ![k] = NoResult]
    /\ isMultiplayer' = [isMultiplayer EXCEPT ![k] = FALSE]
    /\ playerColor' = [playerColor EXCEPT ![k] = NoColor]
    /\ gameId' = [gameId EXCEPT ![k] = NoGameId]
    /\ waitingForPlayer' = [waitingForPlayer EXCEPT ![k] = FALSE]

\* the reset button of part_000
resetGame0(k) ==
    /\ connected[k]
    /\ resets < MaxResets
    /\ resetState0(k)
    /\ resets' = resets + 1
    /\ last' = NoAction("reset", k)
    /\ UNCHANGED <<serverVars, netVars, actions, lobbies, sends>>

\* the create button of part_000: `if (socket) socket.emit('createGame')`,
\* with no test of socket.connected; the socket of an open page exists
createGame0(k) ==
    /\ connected[k]
    /\ menuVisible(k)
    /\ lobbies < MaxLobby
    /\ lobbies' = lobbies + 1
    /\ toServer' = [toServer EXCEPT ![k] = Append(toServer[k], createGameMsg)]
    /\ last' = Event("createGame", k)
    /\ UNCHANGED <<sessionVars, lobbyVars, serverVars, connected, toClient,
                   actions, resets, sends>>

\* the join button of part_000: `if (id && socket)`, then the emit and
\* setIsMultiplayer(true)
joinGame0(k, id) ==
    /\ id # ""
    /\ connected[k]
    /\ menuVisible(k)
    /\ lobbies < MaxLobby
    /\ lobbies' = lobbies + 1
    /\ toServer' = [toServer EXCEPT ![k] = Append(toServer[k], joinGameMsg(id))]
    /\ isMultiplayer' = [isMultiplayer EXCEPT ![k] = TRUE]
    /\ last' = Event("joinGame", k)
    /\ UNCHANGED <<sessionVars, gameId, playerColor, waitingForPlayer,
                   serverVars, connected, toClient, actions, resets, sends>>

\* newSocket.on('playerDisconnected') of part_000: the alert, then resetGame
playerDisconnected0(k) ==
    /\ gotMsg(k, "playerDisconnected")
    /\ resetState0(k)
    /\ popClient(k)
    /\ last' = NoAction("playerDisconnected", k)
    /\ UNCHANGED <<serverVars, connected, toServer, actions, resets, lobbies, sends>>

\* part_000 registers no listener for 'error': the event is received and
\* nothing runs
errorUnheard0(k) ==
    /\ gotMsg(k, "error")
    /\ popClient(k)
    /\ last' = Event("error", k)
    /\ UNCHANGED <<sessionVars, lobbyVars, serverVars, connected, toServer,
                   actions, resets, lobbies, sends>>

\* handleSquareClick of part_000 on page k
handleSquareClick0(k, row, col) ==
    LET outcome == clickOutcome(k, row, col) IN
    /\ connected[k]
    /\ board' = [board EXCEPT ![k] = boardAfter0(k, outcome, row, col)]
    /\ currentPlayer' = [currentPlayer EXCEPT ![k] = playerAfter(k, outcome)]
    /\ gameOver' = [gameOver EXCEPT ![k] = resultAfter(k, outcome, row, col)]
    /\ alias' = [alias EXCEPT ![k] = aliasAfter0(k, outcome, row, col)]
    /\ UNCHANGED <<initialWrites, snapshotIntact>>
    /\ selectedSquare' =
         [selectedSquare EXCEPT ![k] = selectionAfter(k, outcome, row, col)]
    /\ validMoves' = [validMoves EXCEPT ![k] = movesAfter0(k, outcome, row, col)]
    /\ attackRanges' =
         [attackRanges EXCEPT ![k] = attacksAfter(k, outcome, row, col)]
    /\ toServer' =
         [toServer EXCEPT ![k] = toServer[k] \o clickEmits0(k, outcome, row, col)]
    /\ actions' = IF outcome \in {"move", "capture"} THEN actions + 1 ELSE actions
    /\ last' = IF outcome \in {"move", "capture"}
               THEN Completed(outcome, k, selectedSquare[k], <<row, col>>)
               ELSE Event(outcome, k)
    /\ UNCHANGED <<lobbyVars, serverVars, connected, toClient, resets, lobbies, sends>>

\* both pages hold the board b0 with cp to move
InitBoth(b0, cp) ==
    /\ board = [k \in Clients |-> IF k \in Pages THEN b0 ELSE initialBoard]
    /\ selectedSquare = [k \in Clients |-> NoSquare]
    /\ currentPlayer = [k \in Clients |-> IF k \in Pages THEN cp ELSE "white"]
    /\ validMoves = [k \in Clients |-> {}]
    /\ attackRanges = [k \in Clients |-> {}]
    /\ gameOver = [k \in Clients |-> NoResult]
    /\ initialWrites = [k \in Clients |-> {}]
    /\ alias = [k \in Clients |-> IF k \in Pages THEN NoAlias ELSE initialAlias]
    /\ snapshotIntact = [k \in Clients |-> TRUE]
    /\ gameId = [k \in Clients |-> NoGameId]
    /\ playerColor = [k \in Clients |-> NoColor]
    /\ isMultiplayer = [k \in Clients |-> FALSE]
    /\ waitingForPlayer = [k \in Clients |-> FALSE]
    /\ connected = [k \in Clients |-> TRUE]
    /\ games = [g \in GameIds |-> NoGame]
    /\ rooms = [g \in GameIds |-> {}]
    /\ toServer = [k \in Clients |-> <<>>]
    /\ toClient = [k \in Clients |-> <<>>]
    /\ actions = 0
    /\ resets = 0
    /\ lobbies = 0
    /\ sends = 0
    /\ last = NoAction("init", 0)

\* each page on the initialBoard of its own variant, white to move
InitOwn ==
    /\ board = [k \in Clients |-> IF k = 2 THEN initialBoard0 ELSE initialBoard]
    /\ selectedSquare = [k \in Clients |-> NoSquare]
    /\ currentPlayer = [k \in Clients |-> "white"]
    /\ validMoves = [k \in Clients |-> {}]
    /\ attackRanges = [k \in Clients |-> {}]
    /\ gameOver = [k \in Clients |-> NoResult]
    /\ initialWrites = [k \in Clients |-> {}]
    /\ alias = [k \in Clients |-> initialAlias]
    /\ snapshotIntact = [k \in Clients |-> TRUE]
    /\ gameId = [k \in Clients |-> NoGameId]
    /\ playerColor = [k \in Clients |-> NoColor]
    /\ isMultiplayer = [k \in Clients |-> FALSE]
    /\ waitingForPlayer = [k \in Clients |-> FALSE]
    /\ connected = [k \in Clients |-> TRUE]
    /\ games = [g \in GameIds |-> NoGame]
    /\ rooms = [g \in GameIds |-> {}]
    /\ toServer = [k \in Clients |-> <<>>]
    /\ toClient = [k \in Clients |-> <<>>]
    /\ actions = 0
    /\ resets = 0
    /\ lobbies = 0
    /\ sends = 0
    /\ last = NoAction("init", 0)

\* a piece of any kind, mages included, in the middle of the board
VariantSquares == {<<3, 4>>}

\* the pages as constructed, or both on one drawn board
InitVariants ==
    \/ InitOwn
    \/ \E b0 \in ProbeBoardsOf(VariantSquares, PieceTypes), cp \in PieceColors :
          InitBoth(b0, cp)

\* The squares a page is clicked on: to select, the square of the drawn
\* piece and the corner of the white warrior of both initial placements;
\* with a selection, every square of the cached sets and one square outside
\* them.
VariantPieces == VariantSquares \cup {<<7, 0>>}

VariantClickSquares(k) ==
    IF selectedSquare[k] = NoSquare
    THEN ClickSquares(k) \cap (VariantPieces \cup quietSquares(k))
    ELSE ClickSquares(k)

\* a click on either page, handled by that page alone: the two pages are two
\* documents and each onClick runs in its own task
VariantClick ==
    \/ ClickIn(1, MaxVariantActions, VariantClickSquares(1))
    \/ /\ actions < MaxVariantActions \/ gameOver[2] # NoResult
       /\ \E sq \in VariantClickSquares(2) : handleSquareClick0(2, sq[1], sq[2])
\* the reset button of either page
VariantReset == resetGame(1) \/ resetGame0(2)
VariantNext == VariantClick \/ VariantReset
SpecVariants == InitVariants /\ [][VariantNext]_vars

\* ------------------------------------------------------- a budgeted session

\* what the users of the pages have done so far, clicks that complete nothing
\* apart: presses of create, join and reset, and pages closed
otherInputs ==
    lobbies + resets + Cardinality({k \in Clients : ~connected[k]})

\* the squares clicked: each page clicks the warrior of one colour and a
\* square within its reach; the white page also clicks the square its
\* assassin stands on in the running game, and the black king's
SessionSquares(k) ==
    IF k = 1 THEN {<<7, 0>>, <<5, 1>>, <<2, 7>>, <<0, 2>>}
    ELSE {<<0, 7>>, <<2, 6>>}

SessionClick ==
    \E k \in Pages : ClickIn(k, MaxInputs - otherInputs, SessionSquares(k))

\* page 1 presses create, page 2 types an id and presses join
SessionCreate == createGame(1)
SessionJoin == \E id \in GameIds : joinGame(2, id)

SessionInput ==
    /\ actions + otherInputs < MaxInputs
    /\ \/ NetReset
       \/ SessionCreate
       \/ SessionJoin
       \/ NetClose

SessionNext ==
    \/ SessionClick
    \/ SessionInput
    \/ ServerStep
    \/ PageStep

\* the board of a game after white's assassin went (7,7)->(2,7) and black's
\* defender (1,6)->(2,6)
runningBoard == moveBoard(moveBoard(initialBoard, 7, 7, 2, 7), 1, 6, 2, 6)

\* a session also starts in a game that is under way: page 1 created it and
\* plays white, page 2 joined and plays black, both show the board of black's
\* last move (relayed to page 1, made on a relayed board by page 2) and the
\* server has stored it
InitRunning ==
    /\ board = [k \in Clients |-> IF k \in Pages THEN runningBoard ELSE initialBoard]
    /\ selectedSquare = [k \in Clients |-> NoSquare]
    /\ currentPlayer = [k \in Clients |-> "white"]
    /\ validMoves = [k \in Clients |-> {}]
    /\ attackRanges = [k \in Clients |-> {}]
    /\ gameOver = [k \in Clients |-> NoResult]
    /\ initialWrites = [k \in Clients |-> {}]
    /\ alias = [k \in Clients |-> IF k \in Pages THEN NoAlias ELSE initialAlias]
    /\ snapshotIntact = [k \in Clients |-> TRUE]
    /\ gameId = [k \in Clients |-> IF k \in Pages THEN "g1" ELSE NoGameId]
    /\ playerColor = [k \in Clients |->
                        IF k = 1 THEN "white" ELSE IF k = 2 THEN "black" ELSE NoColor]
    /\ isMultiplayer = [k \in Clients |-> k \in Pages]
    /\ waitingForPlayer = [k \in Clients |-> FALSE]
    /\ connected = [k \in Clients |-> TRUE]
    /\ games = [g \in GameIds |->
                  IF g = "g1"
                  THEN [players |-> <<1, 2>>, board |-> runningBoard,
                        currentPlayer |-> "white", whitePlayer |-> 1,
                        blackPlayer |-> 2]
                  ELSE NoGame]
    /\ rooms = [g \in GameIds |-> IF g = "g1" THEN Pages ELSE {}]
    /\ toServer = [k \in Clients |-> <<>>]
    /\ toClient = [k \in Clients |-> <<>>]
    /\ actions = 0
    /\ resets = 0
    /\ lobbies = 0
    /\ sends = 0
    /\ last = NoAction("init", 0)

InitSession == Init \/ InitRunning

SpecSession == InitSession /\ [][SessionNext]_vars

\* ------------------------------------------- the two variants in a session

\* The two variants in one session: each page starts on its own initialBoard,
\* or both in a game that is under way; page 1 runs the buttons and listeners
\* of part_001 and page 2 those of part_000, and each page handles its own
\* clicks.

\* a click on either page, handled by that page alone
MixedClick ==
    \/ ClickIn(1, MaxInputs - otherInputs, SessionSquares(1))
    \/ /\ actions < MaxInputs - otherInputs \/ gameOver[2] # NoResult
       /\ \E sq \in SessionSquares(2) : handleSquareClick0(2, sq[1], sq[2])
MixedReset == resetGame(1) \/ resetGame0(2)
MixedCreate == createGame(1) \/ createGame0(2)
MixedJoin == \E id \in GameIds : joinGame(1, id) \/ joinGame0(2, id)
MixedClose == \E k \in Pages : closePage(k)
MixedInput ==
    /\ actions + otherInputs < MaxInputs
    /\ MixedReset \/ MixedCreate \/ MixedJoin \/ MixedClose
MixedServer ==
    \E k \in Pages :
        \/ onCreateGame(k)
        \/ onJoinGame(k)
        \/ onMove(k)
        \/ onGameOver(k)
        \/ onDisconnect(k)
MixedPage ==
    \/ gameCreated(1) \/ gameJoined(1) \/ gameStart(1) \/ opponentMove(1)
    \/ gameOverReceived(1) \/ playerDisconnected(1) \/ errorReceived(1)
    \/ gameCreated(2) \/ gameJoined(2) \/ gameStart(2) \/ opponentMove(2)
    \/ gameOverReceived(2) \/ playerDisconnected0(2) \/ errorUnheard0(2)
MixedNext == MixedClick \/ MixedInput \/ MixedServer \/ MixedPage
InitMixed == InitOwn \/ InitRunning
SpecMixed == InitMixed /\ [][MixedNext]_vars

\* ------------------------------------------------- a joiner that has played

\* Page 2 creates a game and plays it from the untouched initial state; page 1
\* joins it, before or after playing on its own board.  Page 1 clicks the
\* white warrior and a square in its reach, the black warrior and a square in
\* its reach; page 2 clicks its assassin and that same square.
RelaySquares(k) ==
    IF k = 1 THEN {<<7, 0>>, <<5, 1>>, <<0, 7>>, <<2, 7>>}
    ELSE {<<7, 7>>, <<2, 7>>}

RelayClick == \E k \in Pages : ClickIn(k, MaxNetActions, RelaySquares(k))
RelayReset == resetGame(1)
RelayCreate == createGame(2)
RelayJoin == \E id \in GameIds : joinGame(1, id)

RelayServer ==
    \E k \in Pages :
        \/ onCreateGame(k)
        \/ onJoinGame(k)
        \/ onMove(k)

RelayPage ==
    \E k \in Pages :
        \/ gameCreated(k)
        \/ gameJoined(k)
        \/ gameStart(k)
        \/ opponentMove(k)
        \/ errorReceived(k)

RelayNext ==
    \/ RelayClick
    \/ RelayReset
    \/ RelayCreate
    \/ RelayJoin
    \/ RelayServer
    \/ RelayPage

SpecRelay == Init /\ [][RelayNext]_vars

\* ------------------------------------------ a joiner that holds a selection

\* The same two pages on the same squares under the budget of inputs of the
\* budgeted session: page 2 creates the game, page 1 joins it, before or
\* after it selected or played on its own board.
JoinerClick ==
    \E k \in Pages : ClickIn(k, MaxInputs - otherInputs, RelaySquares(k))

JoinerInput ==
    /\ actions + otherInputs < MaxInputs
    /\ \/ RelayReset
       \/ RelayCreate
       \/ RelayJoin

JoinerNext ==
    \/ JoinerClick
    \/ JoinerInput
    \/ RelayServer
    \/ RelayPage

SpecJoiner == Init /\ [][JoinerNext]_vars

\* ------------------------------------------------------- the server's inputs

\* The server takes its events from any connection, whatever the page behind
\* it shows.  A connection emits one event at a time, once the events emitted
\* before have been handled and their replies delivered.
quiet == \A c \in Clients : toServer[c] = <<>> /\ toClient[c] = <<>>

\* the board a move event carries here: the white spearman three squares ahead
sentBoard == moveBoard(initialBoard, 7, 3, 4, 3)

rawEvents ==
    {createGameMsg}
      \cup {joinGameMsg(g) : g \in GameIds}
      \cup {moveMsg(g, sentBoard, "black") : g \in GameIds}
      \cup {gameOverMsg(g, winnerLabel("white")) : g \in GameIds}

rawEmit(k, msg) ==
    /\ connected[k]
    /\ quiet
    /\ sends < MaxSends
    /\ sends' = sends + 1
    /\ toServer' = [toServer EXCEPT ![k] = Append(toServer[k], msg)]
    /\ last' = Event("emit", k)
    /\ UNCHANGED <<sessionVars, lobbyVars, serverVars, connected, toClient,
                   actions, resets, lobbies>>

ServerEmit == \E k \in Clients, msg \in rawEvents : rawEmit(k, msg)
ServerClose == \E k \in Clients : quiet /\ closePage(k)

ServerNext ==
    \/ ServerEmit
    \/ ServerClose
    \/ ServerStep
    \/ PageStep

SpecServer == Init /\ [][ServerNext]_vars

\* ================================================================ claims

at(b, sq) == b[sq[1]][sq[2]]

\* this step completes a move or a capture of client 1; last' describes it
completedStep == actions' = actions + 1 /\ last'.who = 1

pieceCount(b, color) == Cardinality({sq \in Squares : at(b, sq).color = color})

\* ---------------------------------------------------------------------- C1

kingCaptureStep ==
    /\ completedStep
    /\ last'.act = "capture"
    /\ at(board[1], last'.to).type = "king"

resultNaming(color) == IF color = "white" THEN "baek seungri!" ELSE "heuk seungri!"

\* C1 as claimed: the capture of a king records a result naming the capturing
\* colour and leaves the active colour on the capturing colour.
C1_Original ==
    [][kingCaptureStep =>
          /\ gameOver'[1] = resultNaming(at(board[1], last'.from).color)
          /\ currentPlayer'[1] = at(board[1], last'.from).color]_vars

\* C1 as amended: the capture of a king records a non-empty result naming the
\* capturing colour, and the same action flips the active colour to the
\* opponent, like every capture; once a result is recorded no click changes
\* the active colour or the board.
C1_KingCapture ==
    [][/\ kingCaptureStep =>
            /\ gameOver[1] = NoResult
            /\ gameOver'[1] # NoResult
            /\ gameOver'[1] = resultNaming(at(board[1], last'.from).color)
            /\ currentPlayer[1] = at(board[1], last'.from).color
            /\ currentPlayer'[1] = nextPlayer(at(board[1], last'.from).color)
       /\ (gameOver[1] # NoResult /\ last'.ev # "reset") =>
            /\ currentPlayer'[1] = currentPlayer[1]
            /\ board'[1] = board[1]
            /\ gameOver'[1] = gameOver[1]]_vars

\* a king was captured, the active colour is the opponent's, and a click made
\* afterwards was ignored
C1_Witness ==
    /\ gameOver[1] \in {"baek seungri!", "heuk seungri!"}
    /\ last.act = "capture"
    /\ last.ev = "ignored"
    /\ currentPlayer[1] # at(board[1], last.to).color

\* ---------------------------------------------------------------------- C2

\* C2: once a page holds a result, no later event on the session changes that
\* page's board: clicks are ignored and a relayed move does not replace it.
C2_BoardFrozen ==
    [][\A k \in Clients :
          (gameOver[k] # NoResult /\ gameOver'[k] # NoResult) =>
              board'[k] = board[k]]_vars

\* ---------------------------------------------------------------------- C3

\* C3: no move set holds the origin, an off-board square or an occupied
\* square, except that a king's may hold enemy-occupied squares.
C3_MoveTargets ==
    \A r \in Rows, c \in Cols :
        board[1][r][c] # null =>
            \A sq \in getValidMoves(board[1], r, c) :
                /\ sq # <<r, c>>
                /\ sq[1] \in 0..7 /\ sq[2] \in 0..7
                /\ \/ at(board[1], sq) = null
                   \/ /\ board[1][r][c].type = "king"
                      /\ at(board[1], sq).color # board[1][r][c].color

\* a selected king whose cached move set holds an enemy-occupied square, next
\* to a friendly piece that the set leaves out
C3_Witness ==
    /\ selectedSquare[1] # NoSquare
    /\ selectedPiece(1).type = "king"
    /\ \E sq \in validMoves[1] : at(board[1], sq) # null
    /\ \E sq \in AreaSquares(selectedSquare[1][1], selectedSquare[1][2], 1) :
          /\ at(board[1], sq).color = selectedPiece(1).color
          /\ sq \notin validMoves[1]

\* ---------------------------------------------------------------------- C4

\* C4: every square of an attack set is on the board, is not the origin and
\* holds a piece of the colour opposite to the origin's piece.
C4_AttackTargets ==
    \A r \in Rows, c \in Cols :
        board[1][r][c] # null =>
            \A sq \in getAttackRange(board[1], r, c) :
                /\ sq # <<r, c>>
                /\ sq[1] \in 0..7 /\ sq[2] \in 0..7
                /\ at(board[1], sq) # null
                /\ at(board[1], sq).color \in PieceColors
                /\ at(board[1], sq).color # board[1][r][c].color

\* a selected piece with an enemy in its cached attack set and a friendly
\* piece within its reach that the set leaves out
C4_Witness ==
    /\ selectedSquare[1] # NoSquare
    /\ attackRanges[1] # {}
    /\ selectedPiece(1).type = "paladin"
    /\ \E sq \in AreaSquares(selectedSquare[1][1], selectedSquare[1][2], 2) :
          /\ at(board[1], sq).color = selectedPiece(1).color
          /\ sq \notin attackRanges[1]

\* ---------------------------------------------------------------------- C8

\* the quadrants as the claim numbers them
claimQuadrant(sq) ==
    CASE sq[1] < 4 /\ sq[2] >= 4 -> 1
      [] sq[1] < 4 /\ sq[2] < 4 -> 2
      [] sq[1] >= 4 /\ sq[2] < 4 -> 3
      [] sq[1] >= 4 /\ sq[2] >= 4 -> 4

successorSquares(sq) ==
    {t \in Squares : claimQuadrant(t) = (claimQuadrant(sq) % 4) + 1}

\* C8: an assassin's move set is exactly the empty squares, and its attack set
\* exactly the enemy-occupied squares, of quadrant (q mod 4) + 1, q the
\* quadrant of its current square.
C8_AssassinQuadrant ==
    \A r \in Rows, c \in Cols :
        board[1][r][c].type = "assassin" =>
            /\ getValidMoves(board[1], r, c) =
                 {t \in successorSquares(<<r, c>>) : at(board[1], t) = null}
            /\ getAttackRange(board[1], r, c) =
                 {t \in successorSquares(<<r, c>>) :
                     /\ at(board[1], t) # null
                     /\ at(board[1], t).color # board[1][r][c].color}

\* an assassin selected in quadrant 4, where the successor wraps around to
\* quadrant 1, with cached move and attack sets that are both non-empty
C8_Witness ==
    /\ selectedSquare[1] # NoSquare
    /\ selectedPiece(1).type = "assassin"
    /\ claimQuadrant(selectedSquare[1]) = 4
    /\ validMoves[1] # {}
    /\ attackRanges[1] # {}
    /\ \A t \in validMoves[1] \cup attackRanges[1] : claimQuadrant(t) = 1

\* ---------------------------------------------------------------------- C5

stanceCycle(st) == CASE st = 0 -> 1 [] st = 1 -> 2 [] st = 2 -> 0

\* C5: a completed action of a warrior advances its stance one step of
\* 0 -> 1 -> 2 -> 0; a warrior that does not act keeps its stance (unless it is
\* captured or the board is reset).
C5_WarriorStance ==
    [][\A sq \in Squares :
          at(board[1], sq).type = "warrior" =>
              IF completedStep /\ last'.from = sq
              THEN /\ at(board[1], sq).state \in 0..2
                   /\ at(board'[1], last'.to) =
                        [at(board[1], sq) EXCEPT
                            !.state = stanceCycle(at(board[1], sq).state)]
              ELSE IF completedStep /\ last'.to = sq THEN TRUE
              ELSE IF last'.ev = "reset" THEN TRUE
              ELSE at(board'[1], sq) = at(board[1], sq)]_vars

\* a warrior that captured from stance 2 and is back in stance 0, after at
\* least one earlier action
C5_Witness ==
    /\ last.ev = "capture"
    /\ actions >= 2
    /\ at(board[1], last.to).type = "warrior"
    /\ at(board[1], last.to).state = 0

\* ---------------------------------------------------------------------- C6

\* the latest completed action is a capture by the mage now on last.to
mageCapturedLast ==
    /\ last.act = "capture"
    /\ at(board[1], last.to).type = "mage"

\* the enemies a ready mage on sq could attack
lineEnemies(b, sq) ==
    {t \in Squares :
        /\ t # sq
        /\ t[1] = sq[1] \/ t[2] = sq[2]
        /\ at(b, t) # null
        /\ at(b, t).color # at(b, sq).color}

\* C6 as claimed: the cooldown reaches 0 two completed half-turns after the
\* capturing half-turn, so one half-turn after it the mage is still recovering.
C6_Original ==
    [][(mageCapturedLast /\ completedStep /\ last'.to # last.to) =>
          /\ at(board'[1], last.to).state > 0
          /\ getAttackRange(board'[1], last.to[1], last.to[2]) = {}]_vars

\* C6 as amended: the capture sets the cooldown to 2 and its own decay pass
\* takes it to 1; the decay pass of the next completed half-turn takes it to 0.
\* In every state before that the mage's attack set is empty, and after it the
\* attack set is the enemies on the mage's row and column.
C6_MageCooldown ==
    /\ [](mageCapturedLast =>
            /\ at(board[1], last.to).state = 1
            /\ getAttackRange(board[1], last.to[1], last.to[2]) = {})
    /\ [][(mageCapturedLast /\ completedStep /\ last'.to # last.to) =>
            /\ at(board'[1], last.to).state = 0
            /\ getAttackRange(board'[1], last.to[1], last.to[2]) =
                 lineEnemies(board'[1], last.to)]_vars

\* a mage that captured, with an enemy on its line that it cannot attack yet,
\* while the opponent has selected a piece
C6_Witness ==
    /\ mageCapturedLast
    /\ last.ev = "select"
    /\ lineEnemies(board[1], last.to) # {}

\* ---------------------------------------------------------------------- C7

mageCaptureStep ==
    /\ completedStep
    /\ last'.act = "capture"
    /\ at(board[1], last'.from).type = "mage"
    /\ at(board[1], last'.from).state = 0
    /\ last'.from[1] = last'.to[1] \/ last'.from[2] = last'.to[2]

\* C7 as claimed: the board a mage's capture produces has the mage on
\* cooldown 2.
C7_Original ==
    [][mageCaptureStep =>
          /\ at(board'[1], last'.to) =
               [at(board[1], last'.from) EXCEPT !.state = 2]
          /\ at(board'[1], last'.from) = null
          /\ currentPlayer'[1] = nextPlayer(currentPlayer[1])]_vars

\* C7 as amended: in the board a mage's capture produces, the target is gone
\* (the mage stands on its square, the origin is empty), the mage's cooldown
\* is 1 (set to 2, then decayed by the action's own pass), and the active
\* colour has flipped.
C7_MageCapture ==
    [][mageCaptureStep =>
          /\ at(board'[1], last'.to) =
               [at(board[1], last'.from) EXCEPT !.state = 1]
          /\ at(board'[1], last'.from) = null
          /\ pieceCount(board'[1], at(board[1], last'.to).color) =
               pieceCount(board[1], at(board[1], last'.to).color) - 1
          /\ currentPlayer[1] = at(board[1], last'.from).color
          /\ currentPlayer'[1] = nextPlayer(currentPlayer[1])]_vars

C7_Witness ==
    /\ last.ev = "capture"
    /\ at(board[1], last.to).type = "mage"
    /\ at(board[1], last.to).state = 1
    /\ at(board[1], last.from) = null
    /\ currentPlayer[1] # at(board[1], last.to).color

\* ---------------------------------------------------------------------- C9

\* a spearman on (r, c) with no friendly bard around it and three empty
\* on-board squares ahead
spearFree(b, r, c) ==
    /\ b[r][c].type = "spearman"
    /\ ~ \E dr \in -1..1, dc \in -1..1 :
            /\ r + dr \in 0..7 /\ c + dc \in 0..7
            /\ b[r + dr][c + dc].type = "bard"
            /\ b[r + dr][c + dc].color = b[r][c].color
    /\ \A i \in 1..3 :
            /\ r + (i * forwardDir(b[r][c].color)) \in 0..7
            /\ b[r + (i * forwardDir(b[r][c].color))][c] = null

ahead3(b, r, c) == <<r + (3 * forwardDir(b[r][c].color)), c>>

\* C9: such a spearman of the active colour can be selected and then moved
\* exactly 3 squares ahead; the move leaves it on the destination, the origin
\* empty and the opponent to move.  The white spearman of a fresh session is
\* such a spearman.
C9_SpearmanAdvance ==
    /\ [](\A r \in Rows, c \in Cols :
            (/\ spearFree(board[1], r, c)
             /\ board[1][r][c].color = currentPlayer[1]
             /\ gameOver[1] = NoResult) =>
                /\ ahead3(board[1], r, c) \in getValidMoves(board[1], r, c)
                /\ selectedSquare[1] = NoSquare =>
                     clickOutcome(1, r, c) = "select"
                /\ selectedSquare[1] = <<r, c>> =>
                     clickOutcome(1, ahead3(board[1], r, c)[1], c) = "move")
    /\ [](last.ev = "init" =>
            /\ \E c \in Cols :
                  /\ board[1][7][c] = P("spearman", "white")
                  /\ spearFree(board[1], 7, c)
            /\ currentPlayer[1] = "white")
    /\ [][(/\ completedStep
           /\ last'.act = "move"
           /\ spearFree(board[1], last'.from[1], last'.from[2])
           /\ last'.to = ahead3(board[1], last'.from[1], last'.from[2])) =>
              /\ at(board'[1], last'.to) = at(board[1], last'.from)
              /\ at(board'[1], last'.from) = null
              /\ currentPlayer'[1] = nextPlayer(at(board[1], last'.from).color)]_vars

\* the first action of a fresh session took the white spearman 3 squares ahead
C9_Witness ==
    /\ actions = 1
    /\ last.act = "move"
    /\ last.from[1] = 7
    /\ last.to = <<4, last.from[2]>>
    /\ at(board[1], last.to) = P("spearman", "white")
    /\ at(board[1], last.from) = null
    /\ currentPlayer[1] = "black"

\* --------------------------------------------------------------------- C10

\* C10: the active colour changes only in a completed move or capture, or is
\* set to white by a reset; a selection, a deselection and a discarded or
\* ignored click leave it unchanged.
C10_ActiveColour ==
    [][/\ currentPlayer'[1] # currentPlayer[1] =>
            \/ completedStep /\ last'.ev \in {"move", "capture"}
            \/ last'.ev = "reset"
       /\ last'.ev = "reset" => currentPlayer'[1] = "white"
       /\ (~completedStep /\ last'.ev # "reset") =>
            currentPlayer'[1] = currentPlayer[1]]_vars

\* black is to move on a drawn board and a click has just been discarded
C10_Witness ==
    /\ last.ev = "discard"
    /\ currentPlayer[1] = "black"
    /\ actions = 0

\* --------------------------------------------------------------------- C11

\* what a click of page k on sq leaves of the session
clickKeeps(k, sq, fields) ==
    LET outcome == clickOutcome(k, sq[1], sq[2]) IN
    /\ "board" \in fields => boardAfter(k, outcome, sq[1], sq[2]) = board[k]
    /\ "player" \in fields => playerAfter(k, outcome) = currentPlayer[k]
    /\ "result" \in fields => resultAfter(k, outcome, sq[1], sq[2]) = gameOver[k]
    /\ "selection" \in fields =>
          selectionAfter(k, outcome, sq[1], sq[2]) = selectedSquare[k]
    /\ "caches" \in fields =>
          /\ movesAfter(k, outcome, sq[1], sq[2]) = validMoves[k]
          /\ attacksAfter(k, outcome, sq[1], sq[2]) = attackRanges[k]
    /\ "emits" \in fields => clickEmits(k, outcome, sq[1], sq[2]) = <<>>

allFields == {"board", "player", "result", "selection", "caches", "emits"}

\* C11: with no square selected, a click on an empty square or on a piece of
\* the colour that is not to move changes nothing of the session: board,
\* active colour, selection, cached sets and result stay as they are.
C11_IdleClickIgnored ==
    \A sq \in Squares :
        (/\ selectedSquare[1] = NoSquare
         /\ \/ at(board[1], sq) = null
            \/ at(board[1], sq).color # currentPlayer[1]) =>
            /\ clickOutcome(1, sq[1], sq[2]) = "ignored"
            /\ clickKeeps(1, sq, allFields)

\* a click was ignored while nothing was selected and no result was held, on
\* a board where the colour to move has a piece it could have selected
C11_Witness ==
    /\ last.ev = "ignored"
    /\ selectedSquare[1] = NoSquare
    /\ gameOver[1] = NoResult
    /\ validMoves[1] = {} /\ attackRanges[1] = {}
    /\ \E sq \in Squares : at(board[1], sq).color = nextPlayer(currentPlayer[1])
    /\ \E sq \in Squares : at(board[1], sq).color = currentPlayer[1]

\* --------------------------------------------------------------------- C12

\* the squares in neither cached set of page k
uncached(k) == Squares \ (validMoves[k] \cup attackRanges[k])

\* handleSquareClick returns before looking at the selection
gated(k) ==
    \/ gameOver[k] # NoResult
    \/ isMultiplayer[k] /\ playerColor[k] # currentPlayer[k]

clickClears(k, sq) ==
    LET outcome == clickOutcome(k, sq[1], sq[2]) IN
    /\ selectionAfter(k, outcome, sq[1], sq[2]) = NoSquare
    /\ movesAfter(k, outcome, sq[1], sq[2]) = {}
    /\ attacksAfter(k, outcome, sq[1], sq[2]) = {}

joinedHolding(w, b) ==
    /\ games[gameId[w]] # NoGame
    /\ games[gameId[w]].players = <<w, b>>
    /\ gameId[b] = gameId[w]
    /\ playerColor[b] = "black"
    /\ currentPlayer[b] = "white"
    /\ gated(b)
    /\ selectedSquare[b] # NoSquare
    /\ validMoves[b] # {}

canonical(b) ==
    \A sq \in Squares :
        /\ at(b, sq).type = "mage" => at(b, sq).state = 2
        /\ at(b, sq).type = "warrior" => at(b, sq).state = 0

\* C13: a reset yields the initial placement (mages at cooldown 2, warriors at
\* stance 0), no selection, no result and white to move, whatever was selected,
\* moved, captured or received before; no action alters initialBoard or the
\* board snapshot it started from.
C13_ResetRestores ==
    /\ [](\A k \in Clients :
            /\ initialPlacement(k) = initialBoard
            /\ snapshotIntact[k])
    /\ [][\A k \in Clients :
            (last'.who = k /\ last'.ev \in {"reset", "playerDisconnected"}) =>
                /\ board'[k] = initialBoard
                /\ canonical(board'[k])
                /\ selectedSquare'[k] = NoSquare
                /\ validMoves'[k] = {} /\ attackRanges'[k] = {}
                /\ gameOver'[k] = NoResult
                /\ currentPlayer'[k] = "white"]_vars

\* the second page has pressed reset after it received the board the first
\* page's warrior move produced
C13_Witness ==
    /\ last.ev = "reset"
    /\ last.who = 2
    /\ board[2] = initialBoard
    /\ currentPlayer[2] = "white"
    /\ at(board[1], <<5, 1>>) = PS("warrior", "white", 1)
    /\ \E g \in GameIds : games[g] # NoGame /\ games[g].board = board[1]
    /\ connected[2] /\ toClient[2] = <<>> /\ toServer[1] = <<>>

\* --------------------------------------------------------------------- C14

\* this step is the server handling the event of type t that connection k
\* emitted first
serverHandles(k, t) ==
    /\ toServer[k] # <<>>
    /\ Head(toServer[k]).type = t
    /\ toServer'[k] = Tail(toServer[k])

\* the event it handles
handledMsg(k) == Head(toServer[k])

\* what the step delivers to connection c
delivered(c) == SubSeq(toClient'[c], Len(toClient[c]) + 1, Len(toClient'[c]))

deliversOnlyTo(cs) ==
    \A c \in Clients \ cs : toClient'[c] = toClient[c]

\* C14: createGame registers a session whose only participant is the caller,
\* who is white; the session has white to move, no stored board and no black
\* player; the reply goes to the caller only and names the session and white.
C14_CreateSession ==
    [][\A k \in Clients :
          serverHandles(k, "createGame") =>
              \E g \in GameIds :
                  /\ games'[g] = [players |-> <<k>>, board |-> NoBoard,
                                  currentPlayer |-> "white", whitePlayer |-> k,
                                  blackPlayer |-> 0]
                  /\ \A h \in GameIds \ {g} : games'[h] = games[h]
                  /\ k \in rooms'[g]
                  /\ Len(delivered(k)) = 1
                  /\ delivered(k)[1].type = "gameCreated"
                  /\ delivered(k)[1].gameId = g
                  /\ delivered(k)[1].color = "white"
                  /\ deliversOnlyTo({k})]_vars

\* a session has just been created by a connection under the empty id, the
\* reply naming that id is the last in the creator's inbox, and a session
\* created by another connection is stored under another id
C14_Witness ==
    \E k \in Clients :
        /\ last.ev = "onCreateGame"
        /\ last.who = k
        /\ games[""] # NoGame
        /\ games[""].players = <<k>>
        /\ toClient[k] # <<>>
        /\ toClient[k][Len(toClient[k])].type = "gameCreated"
        /\ toClient[k][Len(toClient[k])].gameId = ""
        /\ \E h \in GameIds \ {""} : games[h] # NoGame /\ games[h].whitePlayer # k

\* --------------------------------------------------------------------- C15

participants(g) ==
    IF games[g] = NoGame THEN {}
    ELSE {games[g].players[i] : i \in 1..Len(games[g].players)}

deliveredTypes(c) == [i \in 1..Len(delivered(c)) |-> delivered(c)[i].type]

\* C15: joinGame on a stored session with exactly one participant appends the
\* caller as second participant and black player, tells the caller gameJoined
\* with colour black and delivers gameStart to both participants; a session
\* never has more than two participants, and a join on a session that has two
\* changes nothing and is answered with an error.
C15_JoinSession ==
    /\ [](\A g \in GameIds : games[g] # NoGame => Len(games[g].players) \in 1..2)
    /\ [][\A k \in Clients :
            (serverHandles(k, "joinGame") /\ games[handledMsg(k).gameId] # NoGame) =>
                LET g == handledMsg(k).gameId
                    first == games[g].players[1]
                IN  IF Len(games[g].players) = 1
                    THEN /\ games'[g] = [games[g] EXCEPT !.players = <<first, k>>,
                                                         !.blackPlayer = k]
                         /\ games'[g].whitePlayer = first
                         /\ deliveredTypes(k) = <<"gameStart", "gameJoined">>
                         /\ delivered(k)[2].gameId = g
                         /\ delivered(k)[2].color = "black"
                         /\ first # k => deliveredTypes(first) = <<"gameStart">>
                    ELSE /\ games' = games
                         /\ deliveredTypes(k) = <<"error">>
                         /\ deliversOnlyTo({k})]_vars

\* a second connection has joined a session created by another one and is
\* its black player, and a third connection's join of that session has just
\* been answered with an error
C15_Witness ==
    \E g \in GameIds, k \in Clients, c \in Clients :
        /\ last.ev = "onJoinGame"
        /\ last.who = c
        /\ games[g] # NoGame
        /\ games[g].players = <<games[g].whitePlayer, k>>
        /\ games[g].whitePlayer # k
        /\ games[g].blackPlayer = k
        /\ c \notin participants(g)
        /\ toClient[c] # <<>>
        /\ toClient[c][Len(toClient[c])].type = "error"
        /\ toClient[k] = <<>>

\* --------------------------------------------------------------------- C16

\* C16: a joinGame naming an id with no stored session, or a session that
\* already has two participants, is answered with an error event on the
\* caller's socket alone; nothing is delivered to any other connection and
\* the stored sessions and the rooms stay as they were.
C16_JoinRefused ==
    [][\A k \in Clients :
          (/\ serverHandles(k, "joinGame")
           /\ \/ games[handledMsg(k).gameId] = NoGame
              \/ Len(games[handledMsg(k).gameId].players) = 2) =>
              /\ Len(delivered(k)) = 1
              /\ delivered(k)[1].type = "error"
              /\ delivered(k)[1].winner = "Game not found or full"
              /\ deliversOnlyTo({k})
              /\ games' = games
              /\ rooms' = rooms]_vars

\* a join of an id that has no session has just been refused while another
\* session, with one participant, is stored
C16_Witness ==
    \E g \in GameIds, h \in GameIds, k \in Clients :
        /\ last.ev = "onJoinGame"
        /\ last.who = k
        /\ games[g] = NoGame
        /\ k \notin rooms[g]
        /\ games[h] # NoGame
        /\ Len(games[h].players) = 1
        /\ games[h].whitePlayer # k
        /\ toClient[k] = <<errorMsg>>
        /\ \A c \in Clients \ {k} : toClient[c] = <<>>

\* --------------------------------------------------------------------- C17

\* this step is the page of connection k handling the event of type t that
\* reached it first
pageHandles(k, t) ==
    /\ connected[k]
    /\ connected'[k]
    /\ toClient[k] # <<>>
    /\ Head(toClient[k]).type = t
    /\ toClient'[k] = Tail(toClient[k])

\* C17: a move event naming a stored session is stored and delivered, with
\* its board and active colour as sent, to the other participant and not to
\* the sender; the page that receives it replaces its board and active colour
\* by the ones delivered; a move naming an id with no stored session changes
\* nothing and is delivered to nobody.
C17_MoveRelay ==
    [][\A k \in Clients :
          /\ serverHandles(k, "move") =>
                LET m == handledMsg(k)
                    g == m.gameId
                IN  IF games[g] # NoGame
                    THEN /\ games'[g] = [games[g] EXCEPT
                                            !.board = m.board,
                                            !.currentPlayer = m.currentPlayer]
                         /\ delivered(k) = <<>>
                         /\ \A c \in participants(g) \ {k} :
                               /\ Len(delivered(c)) = 1
                               /\ delivered(c)[1].type = "opponentMove"
                               /\ delivered(c)[1].board = m.board
                               /\ delivered(c)[1].currentPlayer = m.currentPlayer
                    ELSE /\ games' = games
                         /\ toClient' = toClient
          /\ pageHandles(k, "opponentMove") =>
                /\ board'[k] = Head(toClient[k]).board
                /\ currentPlayer'[k] = Head(toClient[k]).currentPlayer]_vars

\* the black participant of a session of two has sent a move, the server
\* stores its board, and the white participant's page now shows that board,
\* different from the one it showed, with black to move
C17_Witness ==
    \E g \in GameIds, k \in Clients :
        /\ last.ev = "opponentMove"
        /\ last.who = k
        /\ games[g] # NoGame
        /\ games[g].whitePlayer = k
        /\ games[g].blackPlayer \in Clients \ {k}
        /\ games[g].board = sentBoard
        /\ board[k] = sentBoard
        /\ currentPlayer[k] = "black"
        /\ board[games[g].blackPlayer] = initialBoard
        /\ currentPlayer[games[g].blackPlayer] = "white"

\* --------------------------------------------------------------------- C18

\* the state resetGame leaves on the page of connection k
resetLocal(k) ==
    /\ board[k] = initialBoard
    /\ selectedSquare[k] = NoSquare
    /\ validMoves[k] = {}
    /\ attackRanges[k] = {}
    /\ currentPlayer[k] = "white"
    /\ gameOver[k] = NoResult
    /\ ~isMultiplayer[k]
    /\ playerColor[k] = NoColor
    /\ gameId[k] = NoGameId
    /\ ~waitingForPlayer[k]

\* C18: when a connection drops, every stored session it is a participant of
\* is removed and playerDisconnected is delivered to the remaining participant
\* of each; the page that receives it returns to the reset local state; a
\* join of an id without a stored session is refused and a move naming it
\* is dropped.
C18_Disconnect ==
    /\ [](\A k \in Clients :
            (~connected[k] /\ toServer[k] = <<>>) =>
                \A g \in GameIds : k \notin participants(g))
    /\ [][\A k \in Clients :
            /\ serverHandles(k, "disconnect") =>
                  \A g \in GameIds :
                      IF k \in participants(g)
                      THEN /\ games'[g] = NoGame
                           /\ \A c \in participants(g) \ {k} :
                                 /\ delivered(c) # <<>>
                                 /\ \A i \in 1..Len(delivered(c)) :
                                       delivered(c)[i].type = "playerDisconnected"
                      ELSE games'[g] = games[g]
            /\ pageHandles(k, "playerDisconnected") => resetLocal(k)'
            /\ (serverHandles(k, "joinGame") /\ games[handledMsg(k).gameId] = NoGame) =>
                  /\ games' = games
                  /\ deliveredTypes(k) = <<"error">>
            /\ (serverHandles(k, "move") /\ games[handledMsg(k).gameId] = NoGame) =>
                  /\ games' = games
                  /\ toClient' = toClient]_vars

\* a connection has dropped and the server has handled it: no session is
\* stored any more, and the page of another connection, still in the room of
\* a removed session, has just handled playerDisconnected and is in the reset
\* local state
C18_Witness ==
    \E k \in Clients, c \in Clients :
        /\ last.ev = "playerDisconnected"
        /\ last.who = c
        /\ c # k
        /\ connected[c]
        /\ ~connected[k]
        /\ toServer[k] = <<>>
        /\ \A g \in GameIds : games[g] = NoGame
        /\ \E g \in GameIds : c \in rooms[g]
        /\ sends >= 2
        /\ resetLocal(c)

\* --------------------------------------------------------------------- C19

\* C19: sessions are isolated: when the server handles a move or gameOver
\* event sent by a connection that is not a participant of the stored session
\* the event names, the session's stored board and active colour stay as
\* they were and nothing is delivered to the session's participants.
C19_Isolation ==
    [][\A k \in Clients, g \in GameIds :
          (/\ serverHandles(k, "move") \/ serverHandles(k, "gameOver")
           /\ handledMsg(k).gameId = g
           /\ games[g] # NoGame
           /\ k \notin participants(g)) =>
              /\ games'[g] = games[g]
              /\ \A c \in participants(g) : delivered(c) = <<>>]_vars

\* --------------------------------------------------------------------- C20

captureStep == completedStep /\ last'.act = "capture"

sameKind(p, q) == p.type = q.type /\ p.color = q.color

\* C20: a completed capture, by a piece of any kind, leaves the acting piece
\* (same kind and colour) on the target square and the origin square empty;
\* the captured colour has one piece less, the capturing colour as many as
\* before, and every other square holds the same kind and colour as before.
C20_CaptureFrame ==
    [][captureStep =>
          LET from == last'.from
              to == last'.to
              piece == at(board[1], from)
              victim == at(board[1], to)
          IN  /\ piece # null
              /\ victim # null
              /\ victim.color # piece.color
              /\ sameKind(at(board'[1], to), piece)
              /\ at(board'[1], from) = null
              /\ pieceCount(board'[1], victim.color) =
                    pieceCount(board[1], victim.color) - 1
              /\ pieceCount(board'[1], piece.color) =
                    pieceCount(board[1], piece.color)
              /\ \A sq \in Squares \ {from, to} :
                    sameKind(at(board'[1], sq), at(board[1], sq))]_vars

\* a mage has just captured along its line: it stands on the target square,
\* two or more squares from its empty origin
C20_Witness ==
    /\ last.act = "capture"
    /\ last.who = 1
    /\ at(board[1], last.to).type = "mage"
    /\ at(board[1], last.from) = null
    /\ \/ last.from[1] - last.to[1] \in {-3, -2, 2, 3}
       \/ last.from[2] - last.to[2] \in {-3, -2, 2, 3}

\* --------------------------------------------------------------------- C21

\* C21: a completed move or capture runs one decay pass: on every square
\* other than the origin and the target, a mage with cooldown above 0 has it
\* reduced by exactly 1, a mage at 0 stays at 0 and every other piece is
\* unchanged.  A mage that moved quietly had a cooldown above 0 and has it
\* reduced by 1; a mage that captured stands at 1 (set to 2, then decayed).
C21_DecayPass ==
    [][completedStep =>
          \A sq \in Squares :
              LET p == at(board[1], sq)
                  q == at(board'[1], sq)
                  acting == at(board[1], last'.from)
              IN  IF sq = last'.to
                  THEN acting.type = "mage" =>
                          IF last'.act = "capture"
                          THEN q.state = 1
                          ELSE /\ acting.state > 0
                               /\ q.state = acting.state - 1
                  ELSE IF sq = last'.from THEN q = null
                  ELSE IF p.type = "mage"
                  THEN q = [p EXCEPT !.state = IF p.state > 0 THEN p.state - 1 ELSE 0]
                  ELSE q = p]_vars

\* the third action of a game from the initial placement is a capture by the
\* white mage, which left its square by a quiet move in the first action and
\* was at cooldown 0 after two passes: it stands on the target at cooldown 1
\* (set to 2, lowered once), and the black mage, at 0 before the capture, is
\* at 0 after it
C21_Witness ==
    /\ last.act = "capture"
    /\ last.ev = "capture"
    /\ actions = 3
    /\ last.from # <<7, 4>>
    /\ at(board[1], last.to).type = "mage"
    /\ at(board[1], last.to).color = "white"
    /\ at(board[1], last.to).state = 1
    /\ \E sq \in Squares :
          /\ at(board[1], sq).type = "mage"
          /\ at(board[1], sq).color = "black"
          /\ at(board[1], sq).state = 0

\* --------------------------------------------------------------------- C22

\* Chebyshev distance
cheb(s, t) == Max(Abs(s[1] - t[1]), Abs(s[2] - t[2]))

\* 1 when a bard of the colour of the piece on sq stands within distance 1 of
\* sq, the square itself included
aura(b, sq) ==
    IF \E t \in Squares :
          /\ cheb(sq, t) <= 1
          /\ at(b, t).type = "bard"
          /\ at(b, t).color = at(b, sq).color
    THEN 1 ELSE 0

emptyWithin(b, sq, n) ==
    {t \in Squares \ {sq} : cheb(sq, t) <= n /\ at(b, t) = null}

enemiesWithin(b, sq, n) ==
    {t \in Squares \ {sq} :
        /\ cheb(sq, t) <= n
        /\ at(b, t) # null
        /\ at(b, t).color # at(b, sq).color}

\* the squares strictly between s and t on a row or column
between(s, t) ==
    {u \in Squares \ {s, t} :
        /\ s[1] = t[1] \/ s[2] = t[2]
        /\ u[1] \in Min(s[1], t[1])..Max(s[1], t[1])
        /\ u[2] \in Min(s[2], t[2])..Max(s[2], t[2])}

\* C22: a mage's move set and attack set are never both non-empty; with a
\* cooldown above 0 the attack set is empty and the move set is the empty
\* squares within distance 1 + aura; with cooldown 0 or no state the move set
\* is empty and the attack set is the enemy-occupied squares of its row and
\* column, whatever stands in between.
C22_MageSets ==
    \A sq \in Squares :
        at(board[1], sq).type = "mage" =>
            LET moves == getValidMoves(board[1], sq[1], sq[2])
                attacks == getAttackRange(board[1], sq[1], sq[2])
            IN  /\ moves = {} \/ attacks = {}
                /\ IF at(board[1], sq).state > 0
                   THEN /\ attacks = {}
                        /\ moves = emptyWithin(board[1], sq, 1 + aura(board[1], sq))
                   ELSE /\ moves = {}
                        /\ attacks = lineEnemies(board[1], sq)

\* a selected mage on cooldown next to a friendly bard: its cached move set
\* reaches distance 2, and its cached attack set is empty although an enemy
\* stands on its row or column
C22_Witness ==
    /\ selectedSquare[1] # NoSquare
    /\ selectedPiece(1).type = "mage"
    /\ selectedPiece(1).state > 0
    /\ aura(board[1], selectedSquare[1]) = 1
    /\ \E t \in validMoves[1] : cheb(selectedSquare[1], t) = 2
    /\ attackRanges[1] = {}
    /\ lineEnemies(board[1], selectedSquare[1]) # {}

\* --------------------------------------------------------------------- C23

\* C23: a warrior in stance 0 has an empty attack set and, as move set, the
\* empty squares within distance 1 + aura; in stance 1 (2) it has an empty
\* move set and, as attack set, the enemy-occupied squares within distance 1
\* (2), without aura and whatever stands in between.  A click on a warrior in
\* stance 1 or 2 with no enemy in range caches two empty sets, so no click
\* that follows completes an action of it, and a step that is not its own
\* action leaves its stance.
C23_WarriorSets ==
    /\ [](\A sq \in Squares :
            at(board[1], sq).type = "warrior" =>
                LET moves == getValidMoves(board[1], sq[1], sq[2])
                    attacks == getAttackRange(board[1], sq[1], sq[2])
                    stance == at(board[1], sq).state
                IN  /\ stance = 0 =>
                          /\ attacks = {}
                          /\ moves = emptyWithin(board[1], sq, 1 + aura(board[1], sq))
                    /\ stance \in {1, 2} =>
                          /\ moves = {}
                          /\ attacks = enemiesWithin(board[1], sq, stance))
    /\ [][\A sq \in Squares :
            (/\ at(board[1], sq).type = "warrior"
             /\ at(board[1], sq).state \in {1, 2}
             /\ enemiesWithin(board[1], sq, at(board[1], sq).state) = {}) =>
                /\ ~(completedStep /\ last'.from = sq)
                /\ (last'.ev # "reset" /\ ~(completedStep /\ last'.to = sq)) =>
                      at(board'[1], sq) = at(board[1], sq)]_vars

\* a selected warrior in stance 2 next to a friendly bard: its cached attack
\* set holds an enemy at distance 2, leaves out an enemy at distance 3, and
\* its cached move set is empty
C23_Witness ==
    /\ selectedSquare[1] # NoSquare
    /\ selectedPiece(1).type = "warrior"
    /\ selectedPiece(1).state = 2
    /\ aura(board[1], selectedSquare[1]) = 1
    /\ validMoves[1] = {}
    /\ \E t \in attackRanges[1] : cheb(selectedSquare[1], t) = 2
    /\ enemiesWithin(board[1], selectedSquare[1], 3) # attackRanges[1]

\* --------------------------------------------------------------------- C24

\* the square i steps ahead of the piece on sq, toward the opponent's edge
stepsAhead(b, sq, i) ==
    <<sq[1] + (IF at(b, sq).color = "white" THEN -i ELSE i), sq[2]>>

\* the run of empty on-board squares ahead of sq, of length n at most
emptyRun(b, sq, n) ==
    {stepsAhead(b, sq, i) : i \in
        {i \in 1..n : \A j \in 1..i :
            /\ stepsAhead(b, sq, j) \in Squares
            /\ at(b, stepsAhead(b, sq, j)) = null}}

\* C24: a spearman's move set is the maximal run of consecutive empty
\* on-board squares directly ahead of it, from distance 1 and of length
\* 3 + aura at most; its attack set is the square 3 steps ahead when that
\* square is on the board and holds an enemy, whatever stands in between and
\* whether or not a friendly bard is adjacent.
C24_SpearmanSets ==
    \A sq \in Squares :
        at(board[1], sq).type = "spearman" =>
            LET third == stepsAhead(board[1], sq, 3) IN
            /\ getValidMoves(board[1], sq[1], sq[2]) =
                  emptyRun(board[1], sq, 3 + aura(board[1], sq))
            /\ getAttackRange(board[1], sq[1], sq[2]) =
                  IF /\ third \in Squares
                     /\ at(board[1], third) # null
                     /\ at(board[1], third).color # at(board[1], sq).color
                  THEN {third}
                  ELSE {}

\* a selected spearman next to a friendly bard with an enemy three steps
\* ahead: the cached attack set is that square and the cached move set is the
\* two empty squares before it
C24_Witness ==
    /\ selectedSquare[1] # NoSquare
    /\ selectedPiece(1).type = "spearman"
    /\ aura(board[1], selectedSquare[1]) = 1
    /\ attackRanges[1] = {stepsAhead(board[1], selectedSquare[1], 3)}
    /\ validMoves[1] = {stepsAhead(board[1], selectedSquare[1], 1),
                        stepsAhead(board[1], selectedSquare[1], 2)}

\* --------------------------------------------------------------------- C25

\* the on-board squares within distance 1 of sq, sq included
near(sq) ==
    {t \in {<<sq[1] + dr, sq[2] + dc>> : dr \in -1..1, dc \in -1..1} :
        t[1] \in Rows /\ t[2] \in Cols}

\* a bard of the given colour stands on an on-board square at most one row
\* and one column from sq
bardNear(b, sq, color) ==
    \E dr \in -1..1, dc \in -1..1 :
        /\ sq[1] + dr \in Rows
        /\ sq[2] + dc \in Cols
        /\ b[sq[1] + dr][sq[2] + dc].type = "bard"
        /\ b[sq[1] + dr][sq[2] + dc].color = color

\* the other squares within distance 1 of sq that hold a bard of the colour
\* of the piece on sq
friendlyBards(b, sq) ==
    {t \in near(sq) \ {sq} :
        /\ at(b, t).type = "bard"
        /\ at(b, t).color = at(b, sq).color}

\* b with the squares of S emptied
without(b, S) ==
    [r \in Rows |-> [c \in Cols |-> IF <<r, c>> \in S THEN null ELSE b[r][c]]]

auraFreeMovers == {"king", "defender", "archer", "assassin"}
areaMovers == {"warrior", "paladin", "bard", "mage"}

\* C25: the aura bonus at a piece's square, for either colour, is 1 exactly
\* when a bard of that colour stands within distance 1 of the square (itself
\* included) and 0 otherwise.  Taking the friendly bards next to a piece off
\* the board leaves its attack set as it is, leaves the move set of a king,
\* defender, archer or assassin as it is apart from the squares the bards
\* stood on, and gives a warrior, paladin, bard or mage no square to move to
\* that it did not have with them.
C25_Aura ==
    \A sq \in Squares :
        at(board[1], sq) # null =>
            /\ \A color \in PieceColors :
                  getBardBonus(board[1], sq[1], sq[2], color) =
                     IF bardNear(board[1], sq, color) THEN 1 ELSE 0
            /\ bardNear(board[1], sq, at(board[1], sq).color) =>
                  LET bards == friendlyBards(board[1], sq)
                      bare == without(board[1], bards)
                  IN  bards # {} =>
                      /\ getAttackRange(board[1], sq[1], sq[2]) =
                            getAttackRange(bare, sq[1], sq[2])
                      /\ at(board[1], sq).type \in auraFreeMovers =>
                            getValidMoves(board[1], sq[1], sq[2]) =
                               getValidMoves(bare, sq[1], sq[2]) \ bards
                      /\ at(board[1], sq).type \in areaMovers =>
                            getValidMoves(bare, sq[1], sq[2]) \ bards
                               \subseteq getValidMoves(board[1], sq[1], sq[2])

\* a selected paladin next to a friendly bard and an enemy bard: its cached
\* move set reaches distance 3, its cached attack set holds enemies within
\* distance 2 only, and an enemy stands at distance 3
C25_Witness ==
    /\ selectedSquare[1] # NoSquare
    /\ selectedPiece(1).type = "paladin"
    /\ friendlyBards(board[1], selectedSquare[1]) # {}
    /\ \E t \in validMoves[1] : cheb(selectedSquare[1], t) = 3
    /\ attackRanges[1] # {}
    /\ attackRanges[1] = enemiesWithin(board[1], selectedSquare[1], 2)
    /\ enemiesWithin(board[1], selectedSquare[1], 3) # attackRanges[1]

\* --------------------------------------------------------------------- C26

\* rows from s to t, counted toward the opponent's edge of the piece on s
forwardOffset(b, s, t) ==
    IF at(b, s).color = "white" THEN s[1] - t[1] ELSE t[1] - s[1]

squaredDistance(b, s, t) ==
    (forwardOffset(b, s, t) * forwardOffset(b, s, t))
      + ((s[2] - t[2]) * (s[2] - t[2]))

\* C26: an archer's move set is empty; its attack set is the enemy-occupied
\* squares at a forward row offset d of 1 or more whose column offset c
\* satisfies d*d + c*c <= 16, whatever stands in between; no square of its
\* own row or behind it is in the set.
C26_ArcherSets ==
    \A sq \in Squares :
        at(board[1], sq).type = "archer" =>
            /\ getValidMoves(board[1], sq[1], sq[2]) = {}
            /\ getAttackRange(board[1], sq[1], sq[2]) =
                  {t \in Squares :
                      /\ forwardOffset(board[1], sq, t) >= 1
                      /\ squaredDistance(board[1], sq, t) <= 16
                      /\ at(board[1], t) # null
                      /\ at(board[1], t).color # at(board[1], sq).color}

\* a selected archer whose cached attack set holds an enemy at distance 4
\* exactly and leaves out an enemy ahead that is farther away; its cached
\* move set is empty
C26_Witness ==
    /\ selectedSquare[1] # NoSquare
    /\ selectedPiece(1).type = "archer"
    /\ validMoves[1] = {}
    /\ \E t \in attackRanges[1] : squaredDistance(board[1], selectedSquare[1], t) = 16
    /\ \E t \in Squares \ attackRanges[1] :
          /\ at(board[1], t) # null
          /\ at(board[1], t).color # selectedPiece(1).color
          /\ forwardOffset(board[1], selectedSquare[1], t) >= 1

\* --------------------------------------------------------------------- C27

\* no message of type t waits in page k's inbox
noPending(k, t) == \A i \in 1..Len(toClient[k]) : toClient[k][i].type # t

\* page w created game g and plays white, page b joined it and plays black,
\* the start signal has reached both, both are connected, neither has
\* recorded a result and nobody has reset
startedBetween(g, w, b) ==
    /\ games[g] # NoGame
    /\ games[g].players = <<w, b>>
    /\ \A k \in {w, b} :
          /\ connected[k]
          /\ gameId[k] = g
          /\ isMultiplayer[k]
          /\ ~waitingForPlayer[k]
          /\ gameOver[k] = NoResult
          /\ noPending(k, "gameStart")
          /\ noPending(k, "gameJoined")
          /\ noPending(k, "gameCreated")
    /\ playerColor[w] = "white"
    /\ playerColor[b] = "black"
    /\ resets = 0

startedSession(g) ==
    \E w \in Pages, b \in Pages : w # b /\ startedBetween(g, w, b)

\* nothing is on its way to the server or to a page
nothingInFlight == \A k \in Clients : toServer[k] = <<>> /\ toClient[k] = <<>>

\* page k ignores every click since its active colour is not its own
offTurn(k) == isMultiplayer[k] /\ playerColor[k] # currentPlayer[k]

\* C27: in a started session with no result recorded, nobody disconnected
\* and nobody reset, once nothing is in flight at least one of the two pages
\* accepts clicks: they are never both off turn.
C27_NoStandstill ==
    \A g \in GameIds :
        startedSession(g) /\ nothingInFlight => ~(offTurn(1) /\ offTurn(2))

\* --------------------------------------------------------------------- C28

\* page k would act on a click: it is in a session, has no result and its
\* active colour is its own
onTurn(k) ==
    /\ isMultiplayer[k]
    /\ gameOver[k] = NoResult
    /\ playerColor[k] = currentPlayer[k]

\* C28: in a started session of two pages in which neither has reset, the
\* two pages are never on turn together, whatever is still in flight.
C28_OneMover ==
    \A g \in GameIds : startedSession(g) => ~(onTurn(1) /\ onTurn(2))

\* --------------------------------------------------------------------- C29

\* this step completes a move or a capture of page k
completedBy(k) == actions' = actions + 1 /\ last'.who = k

kings(b) == {sq \in Squares : at(b, sq).type = "king"}

\* C29: a completed quiet relocation lands on a square that was empty on the
\* page's board, and a completed action that leaves the page's board with
\* fewer kings records a result.
C29_QuietLanding ==
    [][\A k \in Pages :
          completedBy(k) =>
              /\ last'.act = "move" => at(board[k], last'.to) = null
              /\ Cardinality(kings(board'[k])) < Cardinality(kings(board[k])) =>
                    gameOver'[k] # NoResult]_vars

\* --------------------------------------------------------------------- C30

\* C30: a stored game with two participants seats two different connections:
\* white and black are never the same one.
C30_TwoConnections ==
    \A g \in GameIds :
        games[g] # NoGame /\ Len(games[g].players) = 2 =>
            /\ games[g].players[1] # games[g].players[2]
            /\ games[g].whitePlayer # games[g].blackPlayer

\* --------------------------------------------------------------------- C31

\* C31: a step that handles createGame leaves every session that is in the
\* map as it was (participants, colours, stored board, active colour) and
\* leaves its broadcast group as it was.
C31_FreshId ==
    [][\A k \in Clients :
          serverHandles(k, "createGame") =>
              \A g \in GameIds :
                  games[g] # NoGame =>
                      /\ games'[g] = games[g]
                      /\ rooms'[g] = rooms[g]]_vars

\* --------------------------------------------------------------------- C32

\* C32: when a page that is in no session and has no result processes the
\* server's refusal of its join, it is left as a local page: not in
\* multiplayer mode, without a colour, with the board and active colour it
\* had, and its clicks are not turned away by the colour test.
C32_RefusedJoinLocal ==
    [][\A k \in Pages :
          /\ pageHandles(k, "error")
          /\ gameId[k] = NoGameId
          /\ playerColor[k] = NoColor
          /\ gameOver[k] = NoResult
          => /\ board'[k] = board[k]
             /\ currentPlayer'[k] = currentPlayer[k]
             /\ playerColor'[k] = NoColor
             /\ ~isMultiplayer'[k]
             /\ ~(isMultiplayer'[k] /\ playerColor'[k] # currentPlayer'[k])]_vars


\* the mages of one colour on a board
magesOf(b, color) ==
    {sq \in Squares : at(b, sq).type = "mage" /\ at(b, sq).color = color}

\* C33: in a local game from the initial placement, once two actions are
\* completed (so the colour to move has acted before), every mage of the
\* colour to move has cooldown 0; and a quiet move by a mage is the first
\* action of its colour.
C33_MageReady ==
    /\ (actions >= 2 /\ gameOver[1] = NoResult) =>
          \A sq \in magesOf(board[1], currentPlayer[1]) :
              stateOrZero(at(board[1], sq)) = 0
    /\ (last.act = "move" /\ at(board[1], last.to).type = "mage") =>
          actions = (IF at(board[1], last.to).color = "white" THEN 1 ELSE 2)

\* the white mage, which reached the far rank by capturing down its file on
\* white's second turn, captures again from there on white's third turn
C33_Witness ==
    /\ actions = 5
    /\ last.act = "capture"
    /\ last.from = <<0, 4>>
    /\ at(board[1], last.to).type = "mage"
    /\ at(board[1], last.to).color = "white"


\* --------------------------------------------------------------------- C34

\* the bards on a board
bardsOn(b) == {sq \in Squares : at(b, sq).type = "bard"}

\* C34: for every bard on the board, the aura bonus evaluated on its own
\* square for its own colour is 1, and its move set is exactly the empty
\* squares of the board within Chebyshev distance 2; a selected bard's cached
\* moves are that set.
C34_BardReach ==
    /\ \A sq \in bardsOn(board[1]) :
          /\ getBardBonus(board[1], sq[1], sq[2], at(board[1], sq).color) = 1
          /\ getValidMoves(board[1], sq[1], sq[2]) = emptyWithin(board[1], sq, 2)
    /\ (selectedSquare[1] # NoSquare /\ selectedPiece(1).type = "bard") =>
          validMoves[1] = emptyWithin(board[1], selectedSquare[1], 2)

\* a selected bard with no other bard within distance 1 whose cached moves
\* hold a square at distance 2
C34_Witness ==
    /\ selectedSquare[1] # NoSquare
    /\ selectedPiece(1).type = "bard"
    /\ \A t \in bardsOn(board[1]) \ {selectedSquare[1]} :
          cheb(selectedSquare[1], t) > 1
    /\ \E t \in validMoves[1] : cheb(selectedSquare[1], t) = 2


\* --------------------------------------------------------------------- C35

\* how many pieces of one kind and colour a board holds
kindCount(b, type, color) ==
    Cardinality({sq \in Squares : at(b, sq).type = type /\ at(b, sq).color = color})

\* C35: in a local game from the initial placement the board changes only by
\* completed actions.  A quiet move leaves the number of pieces of every kind
\* and colour as it was; a capture takes away exactly one piece, of the
\* colour that is not acting; the acting piece arrives with its kind and
\* colour, its origin is left empty and every other square keeps the kind
\* and colour it held.  Each colour has at most one king, and every mage and
\* every warrior carries a state in 0..2.
C35_PieceIdentity ==
    /\ [](/\ \A color \in PieceColors : kindCount(board[1], "king", color) <= 1
          /\ \A sq \in Squares :
                at(board[1], sq).type \in {"mage", "warrior"} =>
                    at(board[1], sq).state \in 0..2)
    /\ [][/\ board'[1] # board[1] => completedStep
          /\ completedStep =>
                LET from == last'.from
                    to == last'.to
                    piece == at(board[1], from)
                    victim == at(board[1], to)
                IN  /\ piece # null
                    /\ piece.color = currentPlayer[1]
                    /\ sameKind(at(board'[1], to), piece)
                    /\ at(board'[1], from) = null
                    /\ \A sq \in Squares \ {from, to} :
                          sameKind(at(board'[1], sq), at(board[1], sq))
                    /\ IF last'.act = "move"
                       THEN /\ victim = null
                            /\ \A t \in PieceTypes, c \in PieceColors :
                                  kindCount(board'[1], t, c) = kindCount(board[1], t, c)
                       ELSE /\ victim # null
                            /\ victim.color # piece.color
                            /\ \A t \in PieceTypes, c \in PieceColors :
                                  kindCount(board'[1], t, c) =
                                     kindCount(board[1], t, c)
                                       - (IF sameKind(victim, [type |-> t, color |-> c])
                                          THEN 1 ELSE 0)]_vars

\* the white mage has captured twice, the second time the black king: the
\* board holds one king, 14 white pieces and 12 black pieces
C35_Witness ==
    /\ last.act = "capture"
    /\ at(board[1], last.to).type = "mage"
    /\ kindCount(board[1], "king", "black") = 0
    /\ kindCount(board[1], "king", "white") = 1
    /\ gameOver[1] # NoResult


\* --------------------------------------------------------------------- C36

noMage(b) == \A sq \in Squares : at(b, sq).type # "mage"

\* pages 1 and 2 hold the same board, active colour, selection, cached sets
\* and result
pagesAgree ==
    /\ board[1] = board[2]
    /\ currentPlayer[1] = currentPlayer[2]
    /\ selectedSquare[1] = selectedSquare[2]
    /\ validMoves[1] = validMoves[2]
    /\ attackRanges[1] = attackRanges[2]
    /\ gameOver[1] = gameOver[2]

\* the two pages are in the same mode: both local or both in a session with
\* the same colour
sameMode ==
    /\ isMultiplayer[1] = isMultiplayer[2]
    /\ playerColor[1] = playerColor[2]

\* what a click on sq leaves of each page is the same on the two pages
sameAfter(sq) ==
    LET o1 == clickOutcome(1, sq[1], sq[2])
        o2 == clickOutcome(2, sq[1], sq[2])
    IN  /\ o1 = o2
        /\ boardAfter(1, o1, sq[1], sq[2]) = boardAfter0(2, o2, sq[1], sq[2])
        /\ noMage(boardAfter(1, o1, sq[1], sq[2]))
        /\ playerAfter(1, o1) = playerAfter(2, o2)
        /\ selectionAfter(1, o1, sq[1], sq[2]) = selectionAfter(2, o2, sq[1], sq[2])
        /\ movesAfter(1, o1, sq[1], sq[2]) = movesAfter0(2, o2, sq[1], sq[2])
        /\ attacksAfter(1, o1, sq[1], sq[2]) = attacksAfter(2, o2, sq[1], sq[2])
        /\ resultAfter(1, o1, sq[1], sq[2]) = resultAfter(2, o2, sq[1], sq[2])

\* C36: when the page of part_001 and the page of part_000 are in the same
\* mode and agree on a board that holds no mage, the same click, on any
\* square, leaves them in agreement on a board that holds no mage: same
\* board, active colour, selection, cached sets and result.  Every sequence
\* of clicks given to both pages from such a state is a chain of such clicks.
C36_VariantsAgree ==
    (sameMode /\ pagesAgree /\ noMage(board[1])) =>
        \A sq \in Squares : sameAfter(sq)

\* each variant has completed the same capture, page by page, on a drawn
\* board without a mage, and the two agree on what it left
C36_Witness ==
    /\ last.act = "capture"
    /\ actions = 2
    /\ resets = 0
    /\ noMage(board[1])
    /\ sameMode
    /\ pagesAgree
    /\ board[2] # initialBoard

====
